---- MODULE Spec2Model ----
(***************************************************************************)
(* Model of ddc_usb.py: the DDC/CI protocol engine (DDCInterface), the     *)
(* VCP registry (VCPCode), the capability parser (DDCParser) and the       *)
(* session orchestration (DDCSession).                                     *)
(*                                                                         *)
(* Bytes are integers 0..255, byte strings are sequences of bytes.  Time   *)
(* is counted in milliseconds.  The transport (ddc_device) is an external  *)
(* collaborator: each of its write/read calls either raises or succeeds,   *)
(* and a read returns bytes chosen by the device.  Every transport call    *)
(* and every time.sleep call is recorded, in order, in `log`.              *)
(***************************************************************************)
EXTENDS Integers, Sequences, FiniteSets, TLC

VARIABLES
    entry,            \* the public method being executed by the caller
    op,               \* the DDCInterface operation in progress
    pc,               \* position inside the running method
    control,          \* get_value/set_value: argument `control`
    value,            \* set_value: argument `value`
    message,          \* _write: argument `message` (before the checksum)
    sleep,            \* _write/_read: argument `sleep`, in ms
    fn,               \* _retry: the function being retried
    attempt,          \* _retry: loop variable `attempt`
    saved_exception,  \* _retry: local `saved_exception`
    data,             \* _read_once: local `data`
    result,           \* get_value: the returned dictionary, <<>> when none
    outcome,          \* how the last call of `entry` ended
    log,              \* transport calls and sleeps, in order
    tries,            \* outcome of every fn() call made by _retry, in order
    rx,               \* bytes the device still holds for the reply in progress
    budget,           \* transport faults the environment may inject per call
    faults,           \* transport faults injected so far in this call
    raw_caps,         \* DDCSession._raw_caps, a string as a sequence of characters
    gs_vcp,           \* getset: argument `vcp`, a string
    gs_value,         \* getset: argument `value`, a string
    vcpcode,          \* getset: local `vcpcode`
    valuecode,        \* getset: local `valuecode`
    parsed_caps,      \* getset: local `parsed_caps`
    printed,          \* getset: the messages printed, in order
    offset,           \* request_capabilities: local `offset`
    caps_result,      \* request_capabilities: local `result`, the bytes so far
    cs_in,            \* checksum study: the byte string under study
    cs_out,           \* checksum study: results computed from cs_in
    call_args,        \* a static method on its own: the arguments of the call
    call_ret,         \* a static method on its own: what the calls gave back
    argv,             \* main: sys.argv[2:], each argument a string
    argi,             \* main: how many arguments the for loop has taken
    run,              \* main: position in the run, "none" outside a run
    device,           \* DDCSession._device: the transport, opened and closed
    display           \* the display behind the transport: how it answers

vars == <<entry, op, pc, control, value, message, sleep, fn, attempt,
          saved_exception, data, result, outcome, log, tries, rx, budget,
          faults, raw_caps, gs_vcp, gs_value, vcpcode, valuecode, parsed_caps,
          printed, offset, caps_result, cs_in, cs_out, call_args, call_ret,
          argv, argi, run, device, display>>

run_vars == <<run, device, display>>

session_args == <<raw_caps, gs_vcp, gs_value, vcpcode, valuecode, parsed_caps,
                  argv, argi, run_vars>>

session_vars == <<session_args, printed>>

caps_vars == <<offset, caps_result>>

cs_vars == <<cs_in, cs_out>>

fn_vars == <<call_args, call_ret>>

----------------------------------------------------------------------------
(* Byte arithmetic *)

\* The XOR of two bytes, bit by bit: the bit of weight k is set in the result
\* when it is set in exactly one of the two.
BitXor(a, b) ==
    LET bit(k) == (((a \div k) % 2) + ((b \div k) % 2)) % 2
    IN bit(1) + (2 * bit(2)) + (4 * bit(4)) + (8 * bit(8)) + (16 * bit(16))
       + (32 * bit(32)) + (64 * bit(64)) + (128 * bit(128))

\* Python's `^` on two bytes: both operands are values when it is applied.
Xor(a, b) == CHOOSE r \in {BitXor(p, q) : p \in {a}, q \in {b}} : TRUE

\* A variant that keeps the top bit.
And7F_AllBits(b) == b

\* Python's `& 0x7F` on a byte.
And7F(b) == b % 128

\* int.to_bytes(2, "big") / int.from_bytes(.., "big") on 16-bit values.

\* A variant that gives the two bytes in little-endian order.
to_bytes2_Little(v) == <<v % 256, v \div 256>>

to_bytes2(v) == <<v \div 256, v % 256>>

\* A variant that reads the two bytes in little-endian order.
from_bytes2_Little(hi, lo) == (256 * lo) + hi

from_bytes2(hi, lo) == (256 * hi) + lo

----------------------------------------------------------------------------
(* DDCInterface._checksum *)

\* for c in data: checksum = checksum ^ c. The loop over a run of bytes is
\* the loop over the first half of the run, carried on over the second half
\* from the checksum the first half left: every byte is XORed into the
\* running checksum once, in order.
RECURSIVE XorFold(_, _)
XorFold(checksum, bytes) ==
    IF Len(bytes) = 0 THEN checksum
    ELSE IF Len(bytes) = 1 THEN Xor(checksum, bytes[1])
    ELSE CHOOSE r \in {XorFold(XorFold(c, SubSeq(b, 1, Len(b) \div 2)),
                               SubSeq(b, (Len(b) \div 2) + 1, Len(b))) :
                           c \in {checksum}, b \in {bytes}} : TRUE

\* Mutant of _checksum: the bytes are added (mod 256) instead of XORed.
RECURSIVE SumFold(_, _)
SumFold(checksum, bytes) ==
    IF bytes = <<>> THEN checksum
    ELSE SumFold((checksum + Head(bytes)) % 256, Tail(bytes))

_checksum_Sum(bytes, destination_address) ==
    LET checksum == SumFold(0, bytes)
    IN IF destination_address # <<>>
       THEN (checksum + 256 - bytes[1] + destination_address[1]) % 256
       ELSE checksum

\* A variant that leaves the first byte in place: destination_address is
\* ignored.
_checksum_NoOverride(bytes, destination_address) == XorFold(0, bytes)

\* destination_address is <<>> for None and <<a>> for the address a.
_checksum(bytes, destination_address) ==
    LET checksum == XorFold(0, bytes)
    IN IF destination_address # <<>>
       THEN Xor(Xor(checksum, bytes[1]), destination_address[1])
       ELSE checksum

----------------------------------------------------------------------------
(* Values shared by the engine *)

\* DDCInterface.__init__: self._retries
retries == 3

\* A variant that leaves the multiplier out.
Scaled_NoMultiplier(ms) == ms

\* sleep * self._sleep_multiplier, with the multiplier 1.5 and sleep in ms
Scaled(ms) == (ms * 3) \div 2

\* An exception object: its class and message, and the log position of the
\* transport call it was raised at (0: raised before any transport call).
Exc(kind, at) == [kind |-> kind, at |-> at]
NoExc == Exc("none", 0)

NoOutcome == [status |-> "none", exc |-> NoExc]

\* Log entries carry the source line of the call they record.
WriteEvent(x, ok) ==
    [op |-> "write", bytes |-> x, ok |-> ok, n |-> Len(x), line |-> 339]
ReadEvent(n, ok, got, line) ==
    [op |-> "read", bytes |-> got, ok |-> ok, n |-> n, line |-> line]
SleepEvent(ms, line) ==
    [op |-> "sleep", bytes |-> <<>>, ok |-> TRUE, n |-> ms, line |-> line]

Try(f, ok, e, ret) == [fn |-> f, ok |-> ok, exc |-> e, ret |-> ret]

Take(s, n) == SubSeq(s, 1, IF n < Len(s) THEN n ELSE Len(s))
Drop(s, n) == SubSeq(s, n + 1, Len(s))

----------------------------------------------------------------------------
(* The display behind the transport *)

\* A reply as the display sends it: source address 0x6E, length byte with
\* the top bit set, body, and the checksum taken with the 0x50 virtual host
\* address in place of the destination address.
DeviceFrame(body) ==
    LET m == <<110, 128 + Len(body)>> \o body
    IN m \o <<Xor(80, XorFold(0, m))>>

\* VCP Feature Reply: opcode 0x02, result code, echoed VCP code, type,
\* maximum and present value.
GetVcpReply(errno, code, type, maximum, current) ==
    DeviceFrame(<<2, errno, code, type>> \o to_bytes2(maximum) \o to_bytes2(current))

\* Capabilities Reply: opcode 0xE3, offset, payload.
CapabilitiesReply(o, payload) ==
    DeviceFrame(<<227>> \o to_bytes2(o) \o payload)

NullMessage == DeviceFrame(<<>>)

Maxima == {100, 300}
Currents == {50}

\* A VCP code other than c, echoed by a display answering an older request.
OtherControl(c) == IF c = 18 THEN 16 ELSE 18

\* Replies with a good source address and a good checksum.
ValidReplies(c) ==
    {GetVcpReply(0, c, 0, m, v) : m \in Maxima, v \in Currents}
    \cup {GetVcpReply(1, c, 0, 0, 0),
          GetVcpReply(0, OtherControl(c), 1, 65535, 65535),
          DeviceFrame(<<3, 0, c, 0, 0, 100, 0, 50>>),
          CapabilitiesReply(0, <<>>)}

Corrupt(r) == [r EXCEPT ![Len(r)] = Xor(r[Len(r)], 1)]

\* The capability string the display holds, here (vcp(10)), and the sizes
\* of the fragments it sends.
DisplayCaps == <<40, 118, 99, 112, 40, 49, 48, 41, 41>>
FragmentSizes == {3, 4}

\* The fragment of n bytes at most that starts at offset o.
Fragment(o, n) ==
    SubSeq(DisplayCaps, o + 1,
           IF o + n < Len(DisplayCaps) THEN o + n ELSE Len(DisplayCaps))

\* The offset named in the Capabilities Request written last.
RequestedOffset == from_bytes2(message[5], message[6])

\* Capabilities Replies to the request written last: a fragment at the
\* requested offset, empty at the end of the string.
PagedReplies ==
    {CapabilitiesReply(RequestedOffset, Fragment(RequestedOffset, n)) :
        n \in FragmentSizes}

\* A full fragment of a capability string: DDC/CI displays send at most 32
\* bytes of the string in one Capabilities Reply.
FullFragment == [i \in 1..32 |-> 97]

\* A display that answers every Capabilities Request with a full fragment
\* and never with an empty one.
EndlessReplies == {CapabilitiesReply(RequestedOffset % 65536, FullFragment)}

\* A display that is silent sends no Capabilities Reply at all.
CapabilityReplies ==
    IF display = "endless" THEN EndlessReplies
    ELSE IF display = "silent" THEN {}
    ELSE PagedReplies

\* A message with a good checksum whose length byte has the top bit set
\* (top = 1) or clear (top = 0).
Framed(top, body) ==
    LET m == <<110, (128 * top) + Len(body)>> \o body
    IN m \o <<Xor(80, XorFold(0, m))>>

\* Bodies of the messages a bare read is given: none, one byte, a VCP
\* Feature Reply, the start of a capability string.
FramedBodies ==
    {<<>>, <<1>>, <<2, 0, 16, 0, 0, 100, 0, 50>>, <<227, 0, 0, 40, 118>>}

FramedReplies == {Framed(top, body) : top \in {0, 1}, body \in FramedBodies}

\* What the display may answer to the request in progress.
DisplayReplies ==
    IF op = "request_capabilities" THEN CapabilityReplies
    ELSE IF op = "_read" THEN FramedReplies
    ELSE ValidReplies(control)

\* Replies the read path has to refuse: the NULL message, a damaged
\* checksum, a foreign source address, a reply cut short.
FaultyReplies(c) ==
    {NullMessage,
     Corrupt(GetVcpReply(0, c, 0, 100, 50)),
     <<81, 128, 190>>,
     <<110>>}

----------------------------------------------------------------------------
(* DDCInterface._retry *)

\* Mutant of RetryMore: one iteration too many, range(0, self._retries + 2).
RetryMore_OneTooMany(a) == a + 1 < retries + 2

\* range(0, self._retries + 1): is there an iteration after `attempt`?
RetryMore(a) == a + 1 < retries + 1

\* Mutant of SavedException: only the first error is kept.
SavedException_First(saved, e) == IF saved.kind = "none" THEN e ELSE saved

\* except Exception as e: saved_exception = e
SavedException(saved, e) == e

\* The except branch up to the sleep: remember the error of this attempt.
retry_except(e) ==
    /\ saved_exception' = SavedException(saved_exception, e)
    /\ tries' = Append(tries, Try(fn, FALSE, e, <<>>))
    /\ pc' = "retry_sleep"

\* The first statement of the function being retried.
FnStart(f) == IF f = "write_once" THEN "write_once" ELSE "read_hdr"

\* A variant in which a new attempt starts the whole query again, at its
\* write.
NextAttemptStart_Query(f) == "write_once"

\* The next iteration of _retry's loop calls fn() again: the write for
\* _write, the first read for _read.
NextAttemptStart(f) == FnStart(f)

\* _retry called with fn = f: saved_exception = None, first iteration.
begin_retry(f) ==
    /\ fn' = f
    /\ attempt' = 0
    /\ saved_exception' = NoExc
    /\ pc' = FnStart(f)

no_retry ==
    /\ fn' = "none"
    /\ attempt' = 0
    /\ saved_exception' = NoExc

Raise(e) ==
    /\ outcome' = [status |-> "raised", exc |-> e]
    /\ pc' = "idle"

\* A variant that hands nothing back: the caller sees no outcome.
Return_NoOutcome ==
    /\ outcome' = NoOutcome
    /\ pc' = "idle"

Return ==
    /\ outcome' = [status |-> "returned", exc |-> NoExc]
    /\ pc' = "idle"

----------------------------------------------------------------------------
(* DDCInterface: get_value, set_value, _write, _read, _query *)

\* Mutant of InvalidControl: the upper limit is off by one.
InvalidControl_OffByOne(c) == c > 256 \/ c < 0

\* if control > 255 or control < 0
InvalidControl(c) == c > 255 \/ c < 0

\* A variant that accepts any source address.
BadSource_Never(d) == FALSE

\* if data[1] != 0x6E
BadSource(d) == d[2] # 110

\* A variant that accepts any checksum.
BadChecksum_Never(d) == FALSE

\* x = DDCInterface._checksum(data, 0x50); if x != 0
BadChecksum(d) == _checksum(d, <<80>>) # 0

\* Mutant of IsNullMessage: the NULL message is not recognised.
IsNullMessage_Never(d) == FALSE

\* if data == b"\x6f\x6e\x80\xbe"
IsNullMessage(d) == d = <<111, 110, 128, 190>>

\* get_value up to the first transport call: the argument check, the
\* message, and _query's call of _write.
get_value_enter(c) ==
    /\ control' = c
    /\ op' = "get_value"
    /\ IF InvalidControl(c)
       THEN /\ Raise(Exc("ValueError: Invalid VCP control code", 0))
            /\ no_retry
            /\ message' = <<>>
            /\ sleep' = 0
       ELSE /\ message' = <<110, 81, 130, 1, c>>
            /\ sleep' = 40
            /\ begin_retry("write_once")
            /\ outcome' = NoOutcome

\* A variant that asks the display to save its settings instead.
set_value_enter_Save(c, v) ==
    /\ control' = c
    /\ value' = v
    /\ op' = "save_settings"
    /\ message' = <<110, 81, 129, 12>>
    /\ sleep' = 200
    /\ begin_retry("write_once")
    /\ outcome' = NoOutcome

\* set_value up to the first transport call: the argument check, the
\* conversion of control and value to bytes, and the call of _write.
set_value_enter(c, v) ==
    /\ control' = c
    /\ value' = v
    /\ op' = "set_value"
    /\ IF InvalidControl(c)
       THEN /\ Raise(Exc("ValueError: Invalid VCP control code", 0))
            /\ no_retry
            /\ message' = <<>>
            /\ sleep' = 0
       ELSE IF v < 0 \/ v > 65535
       THEN /\ Raise(Exc("OverflowError: int too big to convert", 0))
            /\ no_retry
            /\ message' = <<>>
            /\ sleep' = 0
       ELSE /\ message' = <<110, 81, 132, 3, c>> \o to_bytes2(v)
            /\ sleep' = 50
            /\ begin_retry("write_once")
            /\ outcome' = NoOutcome

\* save_settings up to the first transport call.
save_settings_enter ==
    /\ op' = "save_settings"
    /\ control' = 0
    /\ value' = 0
    /\ message' = <<110, 81, 129, 12>>
    /\ sleep' = 200
    /\ begin_retry("write_once")
    /\ outcome' = NoOutcome

PackOk(bytes) == [ok |-> TRUE, bytes |-> bytes]
PackError == [ok |-> FALSE, bytes |-> <<>>]

\* A variant for the format ">H", an unsigned 16-bit value.
pack_h_Unsigned(v) ==
    IF v < 0 \/ v > 65535 THEN PackError ELSE PackOk(to_bytes2(v))

\* struct.pack(">h", v): a signed 16-bit value in two's complement, high
\* byte first; struct.error outside -32768..32767.
pack_h(v) ==
    IF v < 0 - 32768 \/ v > 32767 THEN PackError
    ELSE PackOk(to_bytes2((v + 65536) % 65536))

\* One pass of the while loop of request_capabilities for offset o, up to
\* the first transport call: the message is built and _write is called.
capabilities_request(o) ==
    IF ~pack_h(o).ok
    THEN /\ Raise(Exc("struct.error: short format requires (-32768) <= number <= 32767", 0))
         /\ UNCHANGED <<message, sleep, fn, attempt, saved_exception>>
    ELSE /\ message' = <<110, 81, 131, 243>> \o pack_h(o).bytes
         /\ sleep' = 40
         /\ begin_retry("write_once")
         /\ outcome' = NoOutcome

\* The state a public call starts from: nothing sent, nothing read.
fresh_call ==
    /\ log' = <<>>
    /\ tries' = <<>>
    /\ faults' = 0
    /\ data' = <<>>
    /\ result' = <<>>
    /\ rx' = <<>>

\* _write_once: the checksum is appended and the message handed to the
\* transport, which accepts it or raises.
_write_once ==
    /\ pc = "write_once"
    /\ LET x == message \o <<_checksum(message, <<>>)>>
       IN \E ok \in BOOLEAN :
            /\ ~ok => faults < budget
            /\ faults' = IF ok THEN faults ELSE faults + 1
            /\ log' = Append(log, WriteEvent(x, ok))
            /\ IF ok
               THEN /\ pc' = "write_sleep"
                    /\ UNCHANGED <<saved_exception, tries>>
               ELSE retry_except(Exc("TransportError", Len(log) + 1))
    /\ UNCHANGED <<entry, op, control, value, message, sleep, fn, attempt,
                   data, result, outcome, rx, budget, session_vars, caps_vars, cs_vars, fn_vars>>

\* The `sleep` of the _read that follows a _write: _query hands its own
\* sleep to both; request_capabilities calls _read(sleep=0.050).
ReadSleep(o, s) == IF o = "request_capabilities" THEN 50 ELSE s

\* _write_once after the write: time.sleep, then _write returns to the
\* operation that called it.
_write_once_sleep ==
    /\ pc = "write_sleep"
    /\ log' = Append(log, SleepEvent(Scaled(sleep), 340))
    /\ tries' = Append(tries, Try(fn, TRUE, NoExc, <<>>))
    /\ IF op \in {"get_value", "request_capabilities"}
       THEN /\ begin_retry("read_once")
            /\ UNCHANGED outcome
       ELSE /\ Return
            /\ UNCHANGED <<fn, attempt, saved_exception>>
    /\ sleep' = ReadSleep(op, sleep)
    /\ printed' = IF op = "set_value" /\ entry = "getset"
                  THEN Append(printed, "Set value of VCP")
                  ELSE printed
    /\ UNCHANGED <<entry, op, control, value, message, data, result,
                   rx, budget, faults, session_args, caps_vars, cs_vars, fn_vars>>

\* _retry's except branch: time.sleep(sleep * multiplier) with _retry's own
\* `sleep` (its default, 0.040: _write and _read call _retry without it),
\* then the next iteration, or `raise saved_exception` after the last.
_retry_sleep ==
    /\ pc = "retry_sleep"
    /\ log' = Append(log, SleepEvent(Scaled(40), 315))
    /\ IF RetryMore(attempt)
       THEN /\ attempt' = attempt + 1
            /\ pc' = NextAttemptStart(fn)
            /\ UNCHANGED outcome
       ELSE /\ Raise(saved_exception)
            /\ UNCHANGED attempt
    /\ UNCHANGED <<entry, op, control, value, message, sleep, fn,
                   saved_exception, data, result, tries, rx, budget, faults,
                   session_vars, caps_vars, cs_vars, fn_vars>>

\* _read_once, first transport read: the assumed destination address, then
\* read(2); the source address check; the length byte.
_read_once_header ==
    /\ pc = "read_hdr"
    /\ \/ /\ faults < budget
          /\ faults' = faults + 1
          /\ log' = Append(log, ReadEvent(2, FALSE, <<>>, 369))
          /\ data' = <<111>>
          /\ rx' = <<>>
          /\ retry_except(Exc("TransportError", Len(log) + 1))
       \/ \E r \in DisplayReplies \cup FaultyReplies(control) :
            LET got == Take(r, 2)
                d == <<111>> \o got
                at == Len(log) + 1
            IN /\ r \in FaultyReplies(control) => faults < budget
               /\ faults' = IF r \in FaultyReplies(control)
                            THEN faults + 1 ELSE faults
               /\ log' = Append(log, ReadEvent(2, TRUE, got, 369))
               /\ data' = d
               /\ rx' = Drop(r, 2)
               /\ IF Len(d) < 2
                  THEN retry_except(Exc("IndexError", at))
                  ELSE IF BadSource(d)
                  THEN retry_except(Exc("IOError: Unexpected reply from address", at))
                  ELSE IF Len(d) < 3
                  THEN retry_except(Exc("IndexError", at))
                  ELSE /\ pc' = "read_body"
                       /\ UNCHANGED <<saved_exception, tries>>
    /\ UNCHANGED <<entry, op, control, value, message, sleep, fn, attempt,
                   result, outcome, budget, session_vars, caps_vars, cs_vars, fn_vars>>

\* _read_once, second transport read: read((data[2] & 0x7F) + 1), the
\* checksum with the 0x50 virtual host address, the NULL message.
_read_once_body ==
    /\ pc = "read_body"
    /\ LET n == And7F(data[3]) + 1
           at == Len(log) + 1
       IN \/ /\ faults < budget
             /\ faults' = faults + 1
             /\ log' = Append(log, ReadEvent(n, FALSE, <<>>, 372))
             /\ rx' = <<>>
             /\ retry_except(Exc("TransportError", at))
             /\ UNCHANGED data
          \/ LET got == Take(rx, n)
                 d == data \o got
             IN /\ log' = Append(log, ReadEvent(n, TRUE, got, 372))
                /\ data' = d
                /\ rx' = Drop(rx, n)
                /\ IF BadChecksum(d)
                   THEN retry_except(Exc("IOError: Received data with BAD checksum", at))
                   ELSE IF IsNullMessage(d)
                   THEN retry_except(Exc("IOError: Received NULL message", at))
                   ELSE /\ pc' = "read_sleep"
                        /\ UNCHANGED <<saved_exception, tries>>
                /\ UNCHANGED faults
    /\ UNCHANGED <<entry, op, control, value, message, sleep, fn, attempt,
                   result, outcome, budget, session_vars, caps_vars, cs_vars, fn_vars>>

\* _read_once after an accepted message: time.sleep, return data; _retry,
\* _read and _query return it to get_value.
_read_once_sleep ==
    /\ pc = "read_sleep"
    /\ log' = Append(log, SleepEvent(Scaled(sleep), 380))
    /\ tries' = Append(tries, Try(fn, TRUE, NoExc, data))
    /\ IF op = "_read"
       THEN Return
       ELSE /\ pc' = IF op = "request_capabilities"
                      THEN "capabilities_reply" ELSE "get_value_reply"
            /\ UNCHANGED outcome
    /\ UNCHANGED <<entry, op, control, value, message, sleep, fn, attempt,
                   saved_exception, data, result, rx, budget, faults,
                   session_vars, caps_vars, cs_vars, fn_vars>>

\* if len(data) != 12
UnexpectedLength(d) == Len(d) # 12

\* A variant whose record always reports result code 0.
ValueRecord_NoErrno(d) ==
    [errno |-> 0,
     opcode |-> d[6],
     type |-> d[7],
     maximum |-> from_bytes2(d[8], d[9]),
     value |-> from_bytes2(d[10], d[11])]

\* result = {"errno": data[4], "opcode": data[5], "type": data[6],
\*           "maximum": ..., "value": ...}
ValueRecord(d) ==
    [errno |-> d[5],
     opcode |-> d[6],
     type |-> d[7],
     maximum |-> from_bytes2(d[8], d[9]),
     value |-> from_bytes2(d[10], d[11])]

\* A variant that accepts any reply opcode.
UnexpectedOpcode_Never(d) == FALSE

\* if data[3] != 0x02
UnexpectedOpcode(d) == d[4] # 2

\* get_value after _query: the length and opcode checks and the result.
get_value_reply ==
    /\ pc = "get_value_reply"
    /\ IF UnexpectedLength(data)
       THEN /\ Raise(Exc("ValueError: Received reply of unexpected length", 0))
            /\ UNCHANGED result
       ELSE IF UnexpectedOpcode(data)
       THEN /\ Raise(Exc("ValueError: Received reply of unexpected opcode", 0))
            /\ UNCHANGED result
       ELSE /\ result' = <<ValueRecord(data)>>
            /\ IF entry = "getset"
               THEN /\ pc' = "getset_result"
                    /\ UNCHANGED outcome
               ELSE Return
    /\ UNCHANGED <<entry, op, control, value, message, sleep, fn, attempt,
                   saved_exception, data, log, tries, rx, budget, faults,
                   session_vars, caps_vars, cs_vars, fn_vars>>

\* A variant that takes the payload from one byte further on.
Payload_OffByOne(d) == SubSeq(d, 8, Len(d) - 1)

\* payload = data[6:-1]
Payload(d) == SubSeq(d, 7, Len(d) - 1)

\* str(result, "ASCII") raises UnicodeDecodeError for a byte above 127.
IsAscii(bytes) == \A i \in DOMAIN bytes : bytes[i] < 128

\* request_capabilities after _read has returned: the payload is taken
\* from the reply; an empty one ends the loop and the bytes so far are
\* returned as a string, any other is added and the next pass begins.
capabilities_reply ==
    /\ pc = "capabilities_reply"
    /\ IF Len(Payload(data)) = 0
       THEN /\ IF IsAscii(caps_result)
               THEN Return
               ELSE Raise(Exc("UnicodeDecodeError", 0))
            /\ UNCHANGED <<caps_vars, message, sleep, fn, attempt,
                           saved_exception>>
       ELSE /\ caps_result' = caps_result \o Payload(data)
            /\ offset' = offset + Len(Payload(data))
            /\ capabilities_request(offset + Len(Payload(data)))
    /\ UNCHANGED <<entry, op, control, value, data, result, log, tries, rx,
                   budget, faults, session_vars, cs_vars, fn_vars>>

----------------------------------------------------------------------------
(* A caller of DDCInterface over a transport that may fail at any call *)

ControlArgs == {0 - 1, 16, 256}
ValueArgs == {50, 65535, 65536}

\* Faults the transport may inject during one call.
MaxEngineFaults == 4

\* The caller is between two calls: nothing is running and the outcome of
\* the previous call has been taken.
Ready == pc = "idle" /\ outcome.status = "none"

\* The state between two calls, as after construction.
ready_state ==
    /\ entry' = "none"
    /\ op' = "none"
    /\ pc' = "idle"
    /\ control' = 0
    /\ value' = 0
    /\ message' = <<>>
    /\ sleep' = 0
    /\ no_retry
    /\ outcome' = NoOutcome
    /\ fresh_call
    /\ gs_vcp' = <<>>
    /\ gs_value' = <<>>
    /\ vcpcode' = [t |-> "none"]
    /\ valuecode' = [t |-> "none"]
    /\ parsed_caps' = [t |-> "none"]
    /\ printed' = <<>>

\* The caller has seen a call return or raise (and has caught the
\* exception) and goes on to its next call.
CallerContinues ==
    /\ pc = "idle"
    /\ outcome.status # "none"
    /\ ready_state
    /\ UNCHANGED <<budget, raw_caps, run_vars, argv, argi, caps_vars, cs_vars, fn_vars>>

CallGetValue ==
    /\ Ready
    /\ \E c \in ControlArgs :
         /\ entry' = "get_value"
         /\ fresh_call
         /\ get_value_enter(c)
    /\ value' = 0
    /\ UNCHANGED <<budget, session_vars, caps_vars, cs_vars, fn_vars>>

CallSetValue ==
    /\ Ready
    /\ \E c \in ControlArgs, v \in ValueArgs :
         /\ entry' = "set_value"
         /\ fresh_call
         /\ set_value_enter(c, v)
    /\ UNCHANGED <<budget, session_vars, caps_vars, cs_vars, fn_vars>>

InitIdle ==
    /\ entry = "none"
    /\ op = "none"
    /\ pc = "idle"
    /\ control = 0
    /\ value = 0
    /\ message = <<>>
    /\ sleep = 0
    /\ fn = "none"
    /\ attempt = 0
    /\ saved_exception = NoExc
    /\ data = <<>>
    /\ result = <<>>
    /\ outcome = NoOutcome
    /\ log = <<>>
    /\ tries = <<>>
    /\ rx = <<>>
    /\ faults = 0
    /\ gs_vcp = <<>>
    /\ gs_value = <<>>
    /\ vcpcode = [t |-> "none"]
    /\ valuecode = [t |-> "none"]
    /\ parsed_caps = [t |-> "none"]
    /\ printed = <<>>
    /\ offset = 0
    /\ caps_result = <<>>
    /\ call_ret = <<>>

CallSaveSettings ==
    /\ Ready
    /\ entry' = "save_settings"
    /\ fresh_call
    /\ save_settings_enter
    /\ UNCHANGED <<budget, session_vars, caps_vars, cs_vars, fn_vars>>

InitEngine ==
    /\ InitIdle
    /\ budget = MaxEngineFaults
    /\ raw_caps = <<>>
    /\ argv = <<>>
    /\ argi = 0
    /\ run = "none"
    /\ device = "open"
    /\ display = "paged"
    /\ cs_in = <<>>
    /\ cs_out = <<>>
    /\ call_args = <<>>

NextEngine ==
    \/ CallGetValue
    \/ CallSetValue
    \/ CallSaveSettings
    \/ CallerContinues
    \/ _write_once
    \/ _write_once_sleep
    \/ _retry_sleep
    \/ _read_once_header
    \/ _read_once_body
    \/ _read_once_sleep
    \/ get_value_reply

SpecEngine == InitEngine /\ [][NextEngine]_vars

----------------------------------------------------------------------------
(* _read on its own: read attempts on messages with either top bit *)

\* self._read(sleep) with sleep = 0.040
CallRead ==
    /\ Ready
    /\ entry' = "_read"
    /\ op' = "_read"
    /\ fresh_call
    /\ control' = 0
    /\ value' = 0
    /\ message' = <<>>
    /\ sleep' = 40
    /\ begin_retry("read_once")
    /\ outcome' = NoOutcome
    /\ UNCHANGED <<budget, session_vars, caps_vars, cs_vars, fn_vars>>

\* The transport may fail twice during the call.
InitRead ==
    /\ InitIdle
    /\ budget = 2
    /\ raw_caps = <<>>
    /\ argv = <<>>
    /\ argi = 0
    /\ run = "none"
    /\ device = "open"
    /\ display = "paged"
    /\ cs_in = <<>>
    /\ cs_out = <<>>
    /\ call_args = <<>>

NextRead ==
    \/ CallRead
    \/ CallerContinues
    \/ _retry_sleep
    \/ _read_once_header
    \/ _read_once_body
    \/ _read_once_sleep

SpecRead == InitRead /\ [][NextRead]_vars

----------------------------------------------------------------------------
(* request_capabilities over a transport that may fail at any call *)

\* Faults the transport may inject during one call.
MaxCapsFaults == 1

CallRequestCapabilities ==
    /\ Ready
    /\ entry' = "request_capabilities"
    /\ op' = "request_capabilities"
    /\ control' = 0
    /\ value' = 0
    /\ fresh_call
    /\ offset' = 0
    /\ caps_result' = <<>>
    /\ capabilities_request(0)
    /\ UNCHANGED <<budget, session_vars, cs_vars, fn_vars>>

InitCaps ==
    /\ InitIdle
    /\ budget = MaxCapsFaults
    /\ raw_caps = <<>>
    /\ argv = <<>>
    /\ argi = 0
    /\ run = "none"
    /\ device = "open"
    /\ display = "paged"
    /\ cs_in = <<>>
    /\ cs_out = <<>>
    /\ call_args = <<>>

NextCaps ==
    \/ CallRequestCapabilities
    \/ _write_once
    \/ _write_once_sleep
    \/ _retry_sleep
    \/ _read_once_header
    \/ _read_once_body
    \/ _read_once_sleep
    \/ capabilities_reply

SpecCaps == InitCaps /\ [][NextCaps]_vars

----------------------------------------------------------------------------
(* request_capabilities until it ends: over a display that pages its       *)
(* string and a transport that may fail once, and over a display that      *)
(* never sends an empty payload.                                           *)

InitEndless ==
    /\ InitIdle
    /\ \/ display = "paged" /\ budget = 1
       \/ display = "endless" /\ budget = 0
    /\ raw_caps = <<>>
    /\ argv = <<>>
    /\ argi = 0
    /\ run = "none"
    /\ device = "open"
    /\ cs_in = <<>>
    /\ cs_out = <<>>
    /\ call_args = <<>>

\* The interpreter goes on with the call as long as it has a step to take.
SpecEndless == InitEndless /\ [][NextCaps]_vars /\ WF_vars(NextCaps)

----------------------------------------------------------------------------
(* The Capabilities Request on its own: the pass of the loop of            *)
(* request_capabilities that begins with a given accumulated offset (the   *)
(* bytes accumulated are not kept here), and the write of its message.     *)

Offsets == {0, 1, 255, 256, 32767, 32768, 65535} \cup {k * 529 : k \in 0..123}

RequestAtOffset ==
    /\ Ready
    /\ entry' = "request_capabilities"
    /\ op' = "request_capabilities"
    /\ control' = 0
    /\ value' = 0
    /\ fresh_call
    /\ caps_result' = <<>>
    /\ \E o \in Offsets :
         /\ offset' = o
         /\ capabilities_request(o)
    /\ UNCHANGED <<budget, session_vars, cs_vars, fn_vars>>

InitOffsets ==
    /\ InitIdle
    /\ budget = 0
    /\ raw_caps = <<>>
    /\ argv = <<>>
    /\ argi = 0
    /\ run = "none"
    /\ device = "open"
    /\ display = "paged"
    /\ cs_in = <<>>
    /\ cs_out = <<>>
    /\ call_args = <<>>

NextOffsets ==
    \/ RequestAtOffset
    \/ _write_once
    \/ _write_once_sleep

SpecOffsets == InitOffsets /\ [][NextOffsets]_vars

----------------------------------------------------------------------------
(* Python values: strings are sequences of one-character strings; a val  *)
(* that may be an int, a str or None is a tagged record.                   *)

PyInt(i) == [t |-> "int", i |-> i]
PyStr(s) == [t |-> "str", s |-> s]
PyNone == [t |-> "none"]

\* s[a:b] with 0 <= a and b counted from 0, as Python slices.
Slice(s, a, b) == SubSeq(s, a + 1, b)

RECURSIVE Join(_)
\* The string spelled by a sequence of characters.
Join(s) == IF s = <<>> THEN "" ELSE Head(s) \o Join(Tail(s))

DigitValue ==
    ("0" :> 0) @@ ("1" :> 1) @@ ("2" :> 2) @@ ("3" :> 3) @@ ("4" :> 4) @@
    ("5" :> 5) @@ ("6" :> 6) @@ ("7" :> 7) @@ ("8" :> 8) @@ ("9" :> 9) @@
    ("a" :> 10) @@ ("b" :> 11) @@ ("c" :> 12) @@ ("d" :> 13) @@ ("e" :> 14) @@
    ("f" :> 15) @@ ("A" :> 10) @@ ("B" :> 11) @@ ("C" :> 12) @@ ("D" :> 13) @@
    ("E" :> 14) @@ ("F" :> 15)

IsDigit(c, base) == c \in DOMAIN DigitValue /\ DigitValue[c] < base

RECURSIVE DigitsValue(_, _, _)
DigitsValue(s, base, acc) ==
    IF s = <<>> THEN acc
    ELSE DigitsValue(Tail(s), base, (acc * base) + DigitValue[Head(s)])

ParseOk(v) == [ok |-> TRUE, v |-> v]
ParseError == [ok |-> FALSE, v |-> 0]

\* A non-empty run of digits of the base.
Digits(s, base) ==
    IF s # <<>> /\ \A i \in 1..Len(s) : IsDigit(s[i], base)
    THEN ParseOk(DigitsValue(s, base, 0))
    ELSE ParseError

\* An optional sign in front of a numeral: the numeral without it, and
\* the value of the numeral with the sign applied.
HasSign(s) == s # <<>> /\ Head(s) \in {"+", "-"}
Unsigned(s) == IF HasSign(s) THEN Tail(s) ELSE s
Signed(s, r) == IF r.ok /\ HasSign(s) /\ Head(s) = "-" THEN ParseOk(0 - r.v) ELSE r

HasHexPrefix(s) == Len(s) >= 2 /\ s[1] = "0" /\ s[2] \in {"x", "X"}

\* int(s, 0) on a str: an optional sign, then 0x and hex digits, or decimal
\* digits without a leading zero (zero itself may be written 0, 00, ...).
\* (Whitespace, underscores and the 0o/0b prefixes do not occur in the
\* strings of this model.)
IntBase0Body(s) ==
    IF HasHexPrefix(s) THEN Digits(Slice(s, 2, Len(s)), 16)
    ELSE LET r == Digits(s, 10)
         IN IF r.ok /\ Len(s) > 1 /\ s[1] = "0" /\ r.v # 0 THEN ParseError ELSE r

IntBase0(s) == Signed(s, IntBase0Body(Unsigned(s)))

\* int(s, 16) on a str: an optional sign, an optional 0x, hex digits.
IntBase16Body(s) ==
    IF HasHexPrefix(s) THEN Digits(Slice(s, 2, Len(s)), 16) ELSE Digits(s, 16)

IntBase16(s) == Signed(s, IntBase16Body(Unsigned(s)))

\* int(x, 0) on any val: TypeError for an int or None (a non-string with
\* an explicit base), ValueError for a str that is no numeral.
PyIntBase0(x) == IF x.t = "str" THEN IntBase0(x.s) ELSE ParseError

----------------------------------------------------------------------------
(* DDCParser *)

StrNode(s) == [t |-> "str", s |-> s]
ListNode(l) == [t |-> "list", l |-> l]

\* Iterating a node: the items of a list, the characters of a str.
Iter(node) ==
    IF node.t = "list" THEN node.l
    ELSE [i \in 1..Len(node.s) |-> StrNode(<<node.s[i]>>)]

MinOf(S) == CHOOSE i \in S : \A j \in S : i <= j

\* source.find(x, pos)
Find(source, x, pos) ==
    LET hits == {i \in pos..(Len(source) - 1) : source[i + 1] = x}
    IN IF hits = {} THEN -1 ELSE MinOf(hits)

_find_next_char(source, match, pos) ==
    LET valid_indicies == {Find(source, match[k], pos) : k \in 1..Len(match)} \ {-1}
    IN IF valid_indicies = {} THEN -1 ELSE MinOf(valid_indicies)

\* What _parse_tree hands back: `return result` (a list), `return (result,
\* token_idx + 1)` (a pair), or an exception.
TreeList(nodes) == [kind |-> "list", nodes |-> nodes, pos |-> 0, err |-> ""]
TreePair(nodes, pos) == [kind |-> "pair", nodes |-> nodes, pos |-> pos, err |-> ""]
TreeError(err) == [kind |-> "error", nodes |-> <<>>, pos |-> 0, err |-> err]

\* result.append(source[pos:token_idx]) when pos != token_idx
AppendText(res, source, pos, token_idx) ==
    IF pos # token_idx
    THEN Append(res, StrNode(Slice(source, pos, token_idx)))
    ELSE res

\* A variant that takes the list as the child and ends the scan there.
UnpackList_Truncate(res, nodes) == TreeList(Append(res, ListNode(nodes)))

\* `child, pos = <list>`: unpacking a list that is no pair raises, and so
\* does `pos < len(source)` after a list of two nodes has been unpacked.
UnpackList(res, nodes) ==
    IF Len(nodes) # 2
    THEN TreeError("ValueError: unpack")
    ELSE TreeError("TypeError: '<' not supported")

RECURSIVE _parse_tree_loop(_, _, _, _)
\* The while loop of _parse_tree, entered with `pos` and `result`.
_parse_tree_loop(source, sep, pos, res) ==
    IF ~(pos < Len(source)) THEN TreeList(res)
    ELSE
    LET token_idx == _find_next_char(source, <<"(", ")">> \o sep, pos)
    IN IF token_idx = -1
       THEN TreeList(Append(res, StrNode(Slice(source, pos, Len(source)))))
       ELSE IF source[token_idx + 1] = "("
       THEN LET r1 == AppendText(res, source, pos, token_idx)
                sub == _parse_tree_loop(source, sep, token_idx + 1, <<>>)
            IN IF sub.kind = "error" THEN sub
               ELSE IF sub.kind = "pair"
               THEN _parse_tree_loop(source, sep, sub.pos,
                                     Append(r1, ListNode(sub.nodes)))
               \* the call came to the end of the source and gave a list
               ELSE UnpackList(r1, sub.nodes)
       ELSE IF source[token_idx + 1] = ")"
       THEN TreePair(AppendText(res, source, pos, token_idx), token_idx + 1)
       ELSE _parse_tree_loop(source, sep, token_idx + 1,
                             AppendText(res, source, pos, token_idx))

_parse_tree(source, sep, pos) == _parse_tree_loop(source, sep, pos, <<>>)

RECURSIVE _unparse_tree(_, _)
RECURSIVE UnparseItems(_, _, _)
\* The for loop of _unparse_tree over the remaining items.
UnparseItems(items, sep, res) ==
    IF items = <<>> THEN res
    ELSE LET node == Head(items)
             text == IF node.t = "list"
                     THEN <<"(">> \o _unparse_tree(node, sep) \o <<")">>
                     ELSE node.s
         IN UnparseItems(Tail(items), sep, res \o text \o sep)

_unparse_tree(tree, sep) ==
    LET res == UnparseItems(Iter(tree), sep, <<>>)
    IN IF Len(sep) > 0
       THEN SubSeq(res, 1, IF Len(res) > Len(sep)
                              THEN Len(res) - Len(sep) ELSE 0)
       ELSE res

\* Values of the dictionaries the parser builds.
ValNone == [t |-> "none"]
ValStr(s) == [t |-> "str", s |-> s]
ValDict(d) == [t |-> "dict", d |-> d]
EmptyDict == <<>>

\* d[k] = v
DictSet(d, k, v) == (k :> v) @@ d

Converted(v) == [ok |-> TRUE, v |-> v, err |-> ""]
ConvertError(err) == [ok |-> FALSE, v |-> ValNone, err |-> err]

\* A variant in which a group leaves the key before it in place.
KeyAfterGroup_Kept(previous_key) == previous_key

\* previous_key = None, once a group has been attached to its key
KeyAfterGroup(previous_key) == <<>>

RECURSIVE _convert_blobtree_loop(_, _, _)
\* The for loop of _convert_blobtree; previous_key is <<>> for None.
_convert_blobtree_loop(items, previous_key, res) ==
    IF items = <<>> THEN Converted(ValDict(res))
    ELSE
    LET node == Head(items)
    IN IF node.t = "list"
       THEN IF previous_key = <<>>
            THEN ConvertError("ValueError: Discovered child without context")
            ELSE LET sub == _convert_blobtree_loop(node.l, <<>>, EmptyDict)
                 IN IF ~sub.ok THEN sub
                    ELSE _convert_blobtree_loop(Tail(items),
                             KeyAfterGroup(previous_key),
                             DictSet(res, previous_key[1], sub.v))
       ELSE LET key == IntBase16(node.s)
            IN IF ~key.ok
               THEN ConvertError("ValueError: invalid literal for int() with base 16")
               ELSE _convert_blobtree_loop(Tail(items), <<key.v>>,
                        DictSet(res, key.v, ValNone))

_convert_blobtree(tree) == _convert_blobtree_loop(Iter(tree), <<>>, EmptyDict)

\* str.strip() (the only whitespace in the strings of this model is " ")
RECURSIVE LStrip(_)
LStrip(s) == IF s # <<>> /\ Head(s) = " " THEN LStrip(Tail(s)) ELSE s

RECURSIVE RStrip(_)
RStrip(s) ==
    IF s # <<>> /\ s[Len(s)] = " " THEN RStrip(SubSeq(s, 1, Len(s) - 1)) ELSE s

Strip(s) == RStrip(LStrip(s))

RECURSIVE parse_capabilities_loop(_, _)
\* The `for node in it` loop of parse_capabilities, two items at a time.
parse_capabilities_loop(items, res) ==
    IF items = <<>> THEN Converted(ValDict(res))
    ELSE
    LET node == Head(items)
    IN IF node.t # "str"
       THEN ConvertError("AttributeError: 'list' object has no attribute 'strip'")
       ELSE IF Len(items) < 2
       THEN ConvertError("StopIteration")
       ELSE LET key == Join(Strip(node.s))
                val == IF key \in {"cmds", "vcp"}
                         THEN _convert_blobtree(items[2])
                         ELSE Converted(ValStr(_unparse_tree(items[2], <<" ">>)))
            IN IF ~val.ok THEN val
               ELSE parse_capabilities_loop(SubSeq(items, 3, Len(items)),
                                            DictSet(res, Join(node.s), val.v))

\* parse_capabilities once the tree is parsed.
capabilities_of(tree) ==
    IF tree.kind = "error" THEN ConvertError(tree.err)
    ELSE IF tree.kind = "pair" \/ Len(tree.nodes) # 1
    THEN ConvertError("ValueError: Unexpected data outside of capabilities root")
    ELSE parse_capabilities_loop(Iter(tree.nodes[1]), EmptyDict)

parse_capabilities(raw) == capabilities_of(_parse_tree(raw, <<" ">>, 0))

----------------------------------------------------------------------------
(* VCPCode *)

\* One tuple of the table: (opcode, name, readable, writable, known_values);
\* known_values is <<>> for None.
Item(code, name, readable, writable, known_values) ==
    [code |-> code, name |-> name, readable |-> readable,
     writable |-> writable, known_values |-> known_values]

_codes == <<
    Item(1, "degauss", FALSE, TRUE, <<>>),
    Item(2, "new-control-value", TRUE, TRUE, <<
        <<255, "no-user-controls-are-present">>,
        <<0, "no-button-active">>>>),
    Item(3, "soft-controls", TRUE, TRUE, <<
        <<1, "button-1-active">>,
        <<2, "button-2-active">>,
        <<3, "button-3-active">>,
        <<4, "button-4-active">>,
        <<5, "button-5-active">>,
        <<6, "button-6-active">>,
        <<7, "button-7-active">>>>),
    Item(4, "restore-factory-defaults", FALSE, TRUE, <<>>),
    Item(5, "restore-factory-brightness-contrast-defaults", FALSE, TRUE, <<>>),
    Item(6, "restore-factory-geometry-defaults", FALSE, TRUE, <<>>),
    Item(8, "restore-color-defaults", FALSE, TRUE, <<>>),
    Item(10, "restore-factory-tv-defaults", FALSE, TRUE, <<>>),
    Item(11, "color-temperature-increment", TRUE, FALSE, <<>>),
    Item(12, "color-temperature-request", TRUE, TRUE, <<>>),
    Item(14, "clock", TRUE, TRUE, <<>>),
    Item(16, "brightness", TRUE, TRUE, <<>>),
    Item(17, "flesh-tone-enhancement", TRUE, TRUE, <<>>),
    Item(18, "contrast", TRUE, TRUE, <<>>),
    Item(19, "backlight-control", TRUE, TRUE, <<>>),
    Item(20, "select-color-preset", TRUE, TRUE, <<
        <<1, "srgb">>,
        <<2, "display-native">>,
        <<3, "4000-k">>,
        <<4, "5000-k">>,
        <<5, "6500-k">>,
        <<6, "7500-k">>,
        <<7, "8200-k">>,
        <<8, "9300-k">>,
        <<9, "10000-k">>,
        <<10, "11500-k">>,
        <<11, "user-1">>,
        <<12, "user-2">>,
        <<13, "user-3">>>>),
    Item(22, "video-gain-red", TRUE, TRUE, <<>>),
    Item(23, "user-color-vision-compensation", TRUE, TRUE, <<>>),
    Item(24, "video-gain-green", TRUE, TRUE, <<>>),
    Item(26, "video-gain-blue", TRUE, TRUE, <<>>),
    Item(28, "focus", TRUE, TRUE, <<>>),
    Item(30, "auto-setup", TRUE, TRUE, <<
        <<0, "auto-setup-not-active">>,
        <<1, "performing-auto-setup">>,
        <<2, "enable-continuous-periodic-auto-setup">>>>),
    Item(31, "auto-color-setup", TRUE, TRUE, <<
        <<0, "auto-setup-not-active">>,
        <<1, "performing-auto-setup">>,
        <<2, "enable-continuous-periodic-auto-setup">>>>),
    Item(32, "horizontal-position-phase", TRUE, TRUE, <<>>),
    Item(34, "horizontal-size", TRUE, TRUE, <<>>),
    Item(36, "horizontal-pincushion", TRUE, TRUE, <<>>),
    Item(38, "horizontal-pincushion-balance", TRUE, TRUE, <<>>),
    Item(40, "horizontal-convergence-r-b", TRUE, TRUE, <<>>),
    Item(41, "horizontal-convergence-m-g", TRUE, TRUE, <<>>),
    Item(42, "horizontal-linearity", TRUE, TRUE, <<>>),
    Item(44, "horizontal-linearity-balance", TRUE, TRUE, <<>>),
    Item(46, "gray-scale-expansion", TRUE, TRUE, <<>>),
    Item(48, "vertical-position-phase", TRUE, TRUE, <<>>),
    Item(50, "vertical-size", TRUE, TRUE, <<>>),
    Item(52, "vertical-pincushion", TRUE, TRUE, <<>>),
    Item(54, "vertical-pincushion-balance", TRUE, TRUE, <<>>),
    Item(56, "vertical-convergence-r-b", TRUE, TRUE, <<>>),
    Item(57, "vertical-convergence-m-g", TRUE, TRUE, <<>>),
    Item(58, "vertical-linearity", TRUE, TRUE, <<>>),
    Item(60, "vertical-linearity-balance", TRUE, TRUE, <<>>),
    Item(62, "clock-phase", TRUE, TRUE, <<>>),
    Item(64, "horizontal-parallelogram", TRUE, TRUE, <<>>),
    Item(65, "vertical-parallelogram", TRUE, TRUE, <<>>),
    Item(66, "horizontal-keystone", TRUE, TRUE, <<>>),
    Item(67, "vertical-keystone", TRUE, TRUE, <<>>),
    Item(68, "rotation", TRUE, TRUE, <<>>),
    Item(70, "top-corner-flare", TRUE, TRUE, <<>>),
    Item(72, "top-corner-hook", TRUE, TRUE, <<>>),
    Item(74, "bottom-corner-flare", TRUE, TRUE, <<>>),
    Item(76, "bottom-corner-hook", TRUE, TRUE, <<>>),
    Item(82, "active-control", TRUE, FALSE, <<>>),
    Item(84, "performance-preservation", TRUE, TRUE, <<>>),
    Item(86, "horizontal-moire", TRUE, TRUE, <<>>),
    Item(88, "vertical-moire", TRUE, TRUE, <<>>),
    Item(89, "6-axis-saturation-red", TRUE, TRUE, <<>>),
    Item(90, "6-axis-saturation-yellow", TRUE, TRUE, <<>>),
    Item(91, "6-axis-saturation-green", TRUE, TRUE, <<>>),
    Item(92, "6-axis-saturation-cyan", TRUE, TRUE, <<>>),
    Item(93, "6-axis-saturation-blue", TRUE, TRUE, <<>>),
    Item(94, "6-axis-saturation-magenta", TRUE, TRUE, <<>>),
    Item(96, "input-source", TRUE, TRUE, <<
        <<1, "vga-1">>,
        <<2, "vga-2">>,
        <<3, "dvi-1">>,
        <<4, "dvi-2">>,
        <<5, "composite-video-1">>,
        <<6, "composite-video-2">>,
        <<7, "s-video-1">>,
        <<8, "s-video-2">>,
        <<9, "tuner-1">>,
        <<10, "tuner-2">>,
        <<11, "tuner-3">>,
        <<12, "component-video-yprpb-ycrcb-1">>,
        <<13, "component-video-yprpb-ycrcb-2">>,
        <<14, "component-video-yprpb-ycrcb-3">>,
        <<15, "displayport-1">>,
        <<16, "displayport-2">>,
        <<17, "hdmi-1">>,
        <<18, "hdmi-2">>>>),
    Item(98, "audio-speaker-volume", TRUE, TRUE, <<>>),
    Item(99, "speaker-select", TRUE, TRUE, <<
        <<0, "front-l-r">>,
        <<1, "side-l-r">>,
        <<2, "rear-l-r">>,
        <<3, "center-subwoofer">>>>),
    Item(100, "audio-microphone-volume", TRUE, TRUE, <<>>),
    Item(102, "ambient-light-sensor", TRUE, TRUE, <<<<1, "disabled">>, <<2, "enabled">>>>),
    Item(107, "backlight-level-white", TRUE, TRUE, <<>>),
    Item(108, "video-black-level-red", TRUE, TRUE, <<>>),
    Item(109, "backlight-level-red", TRUE, TRUE, <<>>),
    Item(110, "video-black-level-green", TRUE, TRUE, <<>>),
    Item(111, "backlight-level-green", TRUE, TRUE, <<>>),
    Item(112, "video-black-level-blue", TRUE, TRUE, <<>>),
    Item(113, "backlight-level-blue", TRUE, TRUE, <<>>),
    Item(114, "gamma", TRUE, TRUE, <<>>),
    Item(115, "lut-size", TRUE, FALSE, <<>>),
    Item(116, "single-point-lut-operation", TRUE, TRUE, <<>>),
    Item(117, "block-lut-operation", TRUE, TRUE, <<>>),
    Item(118, "remote-procedure-call", FALSE, TRUE, <<>>),
    Item(120, "display-identification-operation", TRUE, FALSE, <<>>),
    Item(122, "adjust-focal-plane", TRUE, TRUE, <<>>),
    Item(124, "adjust-zoom", TRUE, TRUE, <<>>),
    Item(126, "trapezoid", TRUE, TRUE, <<>>),
    Item(128, "keystone", TRUE, TRUE, <<>>),
    Item(130, "horizontal-mirror-flip", TRUE, TRUE, <<
        <<0, "normal-mode">>,
        <<1, "mirrored-horizontally-mode">>>>),
    Item(132, "vertical-mirror-flip", TRUE, TRUE, <<<<0, "normal-mode">>, <<1, "mirrored-vertically-mode">>>>),
    Item(134, "display-scaling", TRUE, TRUE, <<
        <<1, "no-scaling">>,
        <<2, "max-image-no-aspect-ration-distortion">>,
        <<3, "max-vertical-image-no-aspect-ratio-distortion">>,
        <<4, "max-horizontal-image-no-aspect-ratio-distortion">>,
        <<5, "max-vertical-image-with-aspect-ratio-distortion">>,
        <<6, "max-horizontal-image-with-aspect-ratio-distortion">>,
        <<7, "linear-expansion-compression-on-horizontal-axis">>,
        <<8, "linear-expansion-compression-on-h-and-v-axes">>,
        <<9, "squeeze-mode">>,
        <<10, "non-linear-expansion">>>>),
    Item(135, "sharpness", TRUE, TRUE, <<
        <<1, "filter-function-1">>,
        <<2, "filter-function-2">>,
        <<3, "filter-function-3">>,
        <<4, "filter-function-4">>>>),
    Item(136, "velocity-scan-modulation", TRUE, TRUE, <<>>),
    Item(138, "color-saturation", TRUE, TRUE, <<>>),
    Item(139, "tv-channel-up-down", FALSE, TRUE, <<<<1, "increment-channel">>, <<2, "decrement-channel">>>>),
    Item(140, "tv-sharpness", TRUE, TRUE, <<>>),
    Item(141, "audio-mute-screen-blank", TRUE, TRUE, <<<<1, "mute-the-audio">>, <<2, "unmute-the-audio">>>>),
    Item(142, "tv-contrast", TRUE, TRUE, <<>>),
    Item(143, "audio-treble", TRUE, TRUE, <<>>),
    Item(144, "hue", TRUE, TRUE, <<>>),
    Item(145, "audio-bass", TRUE, TRUE, <<>>),
    Item(146, "tv-black-level-luminesence", TRUE, TRUE, <<>>),
    Item(147, "audio-balance-l-r", TRUE, TRUE, <<>>),
    Item(148, "audio-processor-mode", TRUE, TRUE, <<
        <<0, "speaker-off-audio-not-supported">>,
        <<1, "mono">>,
        <<2, "stereo">>,
        <<3, "stereo-expanded">>,
        <<17, "srs-2.0">>,
        <<18, "srs-2.1">>,
        <<19, "srs-3.1">>,
        <<20, "srs-4.1">>,
        <<21, "srs-5.1">>,
        <<22, "srs-6.1">>,
        <<23, "srs-7.1">>,
        <<33, "dolby-2.0">>,
        <<34, "dolby-2.1">>,
        <<35, "dolby-3.1">>,
        <<36, "dolby-4.1">>,
        <<37, "dolby-5.1">>,
        <<38, "dolby-6.1">>,
        <<39, "dolby-7.1">>,
        <<49, "thx-2.0">>,
        <<50, "thx-2.1">>,
        <<51, "thx-3.1">>,
        <<52, "thx-4.1">>,
        <<53, "thx-5.1">>,
        <<54, "thx-6.1">>,
        <<55, "thx-7.1">>>>),
    Item(149, "window-position-tl_x", TRUE, TRUE, <<>>),
    Item(150, "window-position-tl_y", TRUE, TRUE, <<>>),
    Item(151, "window-position-br_x", TRUE, TRUE, <<>>),
    Item(152, "window-position-br_y", TRUE, TRUE, <<>>),
    Item(153, "window-control-on-off", TRUE, TRUE, <<<<0, "no-effect">>, <<1, "off">>, <<2, "on">>>>),
    Item(154, "window-background", TRUE, TRUE, <<>>),
    Item(155, "6-axis-hue-control-red", TRUE, TRUE, <<>>),
    Item(156, "6-axis-hue-control-yellow", TRUE, TRUE, <<>>),
    Item(157, "6-axis-hue-control-green", TRUE, TRUE, <<>>),
    Item(158, "6-axis-hue-control-cyan", TRUE, TRUE, <<>>),
    Item(159, "6-axis-hue-control-blue", TRUE, TRUE, <<>>),
    Item(160, "6-axis-hue-control-magenta", TRUE, TRUE, <<>>),
    Item(162, "auto-setup-on-off", FALSE, TRUE, <<<<1, "off">>, <<2, "on">>>>),
    Item(164, "window-mask-control", TRUE, TRUE, <<>>),
    Item(165, "change-the-selected-window", TRUE, TRUE, <<
        <<0, "full-display-image-area-selected-except-active-windows">>,
        <<1, "window-1-selected">>,
        <<2, "window-2-selected">>,
        <<3, "window-3-selected">>,
        <<4, "window-4-selected">>,
        <<5, "window-5-selected">>,
        <<6, "window-6-selected">>,
        <<7, "window-7-selected">>>>),
    Item(170, "screen-orientation", TRUE, FALSE, <<
        <<1, "0-degrees">>,
        <<2, "90-degrees">>,
        <<3, "180-degrees">>,
        <<4, "270-degrees">>,
        <<255, "display-cannot-supply-orientation">>>>),
    Item(172, "horizontal-frequency", TRUE, FALSE, <<>>),
    Item(174, "vertical-frequency", TRUE, FALSE, <<>>),
    Item(176, "settings", FALSE, TRUE, <<
        <<1, "store-current-settings-in-the-monitor">>,
        <<2, "restore-factory-defaults-for-current-mode">>>>),
    Item(178, "flat-panel-sub-pixel-layout", TRUE, FALSE, <<
        <<0, "sub-pixel-layout-not-defined">>,
        <<1, "red-green-blue-vertical-stripe">>,
        <<2, "red-green-blue-horizontal-stripe">>,
        <<3, "blue-green-red-vertical-stripe">>,
        <<4, "blue-green-red-horizontal-stripe">>,
        <<5, "quad-pixel-red-at-top-left">>,
        <<6, "quad-pixel-red-at-bottom-left">>,
        <<7, "delta-triad">>,
        <<8, "mosaic">>>>),
    Item(180, "source-timing-mode", TRUE, TRUE, <<>>),
    Item(182, "display-technology-type", TRUE, FALSE, <<
        <<1, "crt-shadow-mask">>,
        <<2, "crt-aperture-grill">>,
        <<3, "lcd-active-matrix">>,
        <<4, "lcos">>,
        <<5, "plasma">>,
        <<6, "oled">>,
        <<7, "el">>,
        <<8, "mem">>>>),
    Item(183, "monitor-status", TRUE, FALSE, <<>>),
    Item(184, "packet-count", TRUE, TRUE, <<>>),
    Item(185, "monitor-x-origin", TRUE, TRUE, <<>>),
    Item(186, "monitor-y-origin", TRUE, TRUE, <<>>),
    Item(187, "header-error-count", TRUE, TRUE, <<>>),
    Item(188, "body-crc-error-count", TRUE, TRUE, <<>>),
    Item(189, "client-id", TRUE, TRUE, <<>>),
    Item(190, "link-control", TRUE, TRUE, <<>>),
    Item(192, "display-usage-time", TRUE, FALSE, <<>>),
    Item(194, "display-descriptor-length", TRUE, FALSE, <<>>),
    Item(195, "transmit-display-descriptor", TRUE, TRUE, <<>>),
    Item(196, "enable-display-of-'display-descriptor'", TRUE, TRUE, <<>>),
    Item(198, "application-enable-key", TRUE, FALSE, <<>>),
    Item(200, "display-controller-type", TRUE, FALSE, <<
        <<1, "conexant">>,
        <<2, "genesis">>,
        <<3, "macronix">>,
        <<4, "idt">>,
        <<5, "mstar">>,
        <<6, "myson">>,
        <<7, "phillips">>,
        <<8, "pixelworks">>,
        <<9, "realtek">>,
        <<10, "sage">>,
        <<11, "silicon-image">>,
        <<12, "smartasic">>,
        <<13, "stmicroelectronics">>,
        <<14, "topro">>,
        <<15, "trumpion">>,
        <<16, "welltrend">>,
        <<17, "samsung">>,
        <<18, "novatek">>,
        <<19, "stk">>,
        <<20, "silicon-optics">>,
        <<21, "texas-instruments">>,
        <<22, "analogix">>,
        <<23, "quantum-data">>,
        <<24, "nxp-semiconductors">>,
        <<25, "chrontel">>,
        <<26, "parade-technologies">>,
        <<27, "thine-electronics">>,
        <<28, "trident">>,
        <<29, "micros">>,
        <<255, "not-defined-a-manufacturer-designed-controller">>>>),
    Item(201, "display-firmware-level", TRUE, FALSE, <<>>),
    Item(202, "osd-button-control", TRUE, TRUE, <<
        <<1, "osd-disabled">>,
        <<2, "osd-enabled">>,
        <<255, "display-cannot-supply-this-information">>>>),
    Item(204, "osd-language", TRUE, TRUE, <<
        <<0, "reserved-value-must-be-ignored">>,
        <<1, "chinese-traditional-hantai">>,
        <<2, "english">>,
        <<3, "french">>,
        <<4, "german">>,
        <<5, "italian">>,
        <<6, "japanese">>,
        <<7, "korean">>,
        <<8, "portuguese-portugal">>,
        <<9, "russian">>,
        <<10, "spanish">>,
        <<11, "swedish">>,
        <<12, "turkish">>,
        <<13, "chinese-simplified-kantai">>,
        <<14, "portuguese-brazil">>,
        <<15, "arabic">>,
        <<16, "bulgarian">>,
        <<17, "croatian">>,
        <<18, "czech">>,
        <<19, "danish">>,
        <<20, "dutch">>,
        <<21, "estonian">>,
        <<22, "finnish">>,
        <<23, "greek">>,
        <<24, "hebrew">>,
        <<25, "hindi">>,
        <<26, "hungarian">>,
        <<27, "latvian">>,
        <<28, "lithuanian">>,
        <<29, "norwegian">>,
        <<30, "polish">>,
        <<31, "romanian">>,
        <<32, "serbian">>,
        <<33, "slovak">>,
        <<34, "slovenian">>,
        <<35, "thai">>,
        <<36, "ukranian">>,
        <<37, "vietnamese">>>>),
    Item(205, "status-indicators", TRUE, TRUE, <<>>),
    Item(206, "auxiliary-display-size", TRUE, FALSE, <<>>),
    Item(207, "auxiliary-display-data", FALSE, TRUE, <<>>),
    Item(208, "output-select", TRUE, TRUE, <<
        <<1, "analog-video-r-g-b-1">>,
        <<2, "analog-video-r-g-b-2">>,
        <<3, "digital-video-tdms-1">>,
        <<4, "digital-video-tdms-22">>,
        <<5, "composite-video-1">>,
        <<6, "composite-video-2">>,
        <<7, "s-video-1">>,
        <<8, "s-video-2">>,
        <<9, "tuner-1">>,
        <<10, "tuner-2">>,
        <<11, "tuner-3">>,
        <<12, "component-video-yprpb-ycrcb-1">>,
        <<13, "component-video-yprpb-ycrcb-2">>,
        <<14, "component-video-yprpb-ycrcb-3">>,
        <<15, "displayport-1">>,
        <<16, "displayport-2">>,
        <<17, "hdmi-1">>,
        <<18, "hdmi-2">>>>),
    Item(210, "asset-tag", TRUE, TRUE, <<>>),
    Item(212, "stereo-video-mode", TRUE, TRUE, <<>>),
    Item(214, "power-mode", TRUE, TRUE, <<
        <<1, "dpm-on-dpms-off">>,
        <<2, "dpm-off-dpms-standby">>,
        <<3, "dpm-off-dpms-suspend">>,
        <<4, "dpm-off-dpms-off">>,
        <<5, "write-only-value-to-turn-off-display">>>>),
    Item(215, "auxiliary-power-output", TRUE, TRUE, <<
        <<1, "disable-auxiliary-power">>,
        <<2, "enable-auxiliary-power">>>>),
    Item(218, "scan-mode", TRUE, TRUE, <<
        <<0, "normal-operation">>,
        <<1, "underscan">>,
        <<2, "overscan">>,
        <<3, "widescreen">>>>),
    Item(219, "image-mode", TRUE, TRUE, <<
        <<0, "no-effect">>,
        <<1, "full-mode">>,
        <<2, "zoom-mode">>,
        <<3, "squeeze-mode">>,
        <<4, "variable">>>>),
    Item(220, "display-mode", TRUE, TRUE, <<
        <<0, "standard-default-mode">>,
        <<1, "productivity">>,
        <<2, "mixed">>,
        <<3, "movie">>,
        <<4, "user-defined">>,
        <<5, "games">>,
        <<6, "sports">>,
        <<7, "professional-all-signal-processing-disabled">>,
        <<8, "standard-default-mode-with-intermediate-power-consumption">>,
        <<9, "standard-default-mode-with-low-power-consumption">>,
        <<10, "demonstration">>,
        <<240, "dynamic-contrast">>>>),
    Item(222, "scratch-pad", TRUE, TRUE, <<>>),
    Item(223, "vcp-version", TRUE, FALSE, <<>>)
>>

\* What _lookup returns: None, or a tuple whose [0] is a code and [1] a name.
LookupNone == [t |-> "none"]
LookupFound(code, name) == [t |-> "found", code |-> code, name |-> name]

\* A variant that compares with the code only.
PyIn_CodeOnly(x, code, name) == x.t = "int" /\ x.i = code

\* x in [code, name], for x an int, a str or None
PyIn(x, code, name) ==
    \/ x.t = "int" /\ x.i = code
    \/ x.t = "str" /\ Join(x.s) = name

\* The index of the first item of the table with vcp in [item[0], item[1]],
\* 0 when there is none.
ItemIndex(codes, vcp) ==
    LET hits == {i \in 1..Len(codes) : PyIn(vcp, codes[i].code, codes[i].name)}
    IN IF hits = {} THEN 0 ELSE MinOf(hits)

\* The index of the first entry of item[4] with value in [entry[0],
\* entry[1]], 0 when there is none.
EntryIndex(known, val) ==
    LET hits == {j \in 1..Len(known) : PyIn(val, known[j][1], known[j][2])}
    IN IF hits = {} THEN 0 ELSE MinOf(hits)

\* try: x = int(...)  except (TypeError, ValueError): pass
IntOr(p, other) == IF p.ok THEN PyInt(p.v) ELSE other

\* A variant that falls back on the first entry of the list.
KnownAt_Default(known, j) ==
    IF j = 0
    THEN IF known = <<>> THEN LookupNone
         ELSE LookupFound(known[1][1], known[1][2])
    ELSE LookupFound(known[j][1], known[j][2])

\* The entry of `known` found at index j (0: the loop found none).
KnownAt(known, j) ==
    IF j = 0 THEN LookupNone ELSE LookupFound(known[j][1], known[j][2])

\* The body of the for loop of _lookup for the item at index i (0: the loop
\* ran to its end).
ItemAt(codes, i, val) ==
    IF i = 0 THEN LookupNone
    ELSE IF val.t = "none" THEN LookupFound(codes[i].code, codes[i].name)
    ELSE KnownAt(codes[i].known_values,
                 EntryIndex(codes[i].known_values, val))

\* for item in VCPCode._codes: ...
_lookup_loop(codes, vcp, val) ==
    ItemAt(codes, ItemIndex(codes, vcp), val)

\* value = int(vcp, 0): the second conversion is applied to vcp, not value
_lookup_value(vcp, val) ==
    _lookup_loop(_codes, vcp, IntOr(PyIntBase0(vcp), val))

_lookup(vcp, val) == _lookup_value(IntOr(PyIntBase0(vcp), vcp), val)

\* result[0] / result[1] of what _lookup returned, None for None; a name
\* of the table is kept as the string it is written as there.
ResultCode(r) == IF r.t = "none" THEN PyNone ELSE PyInt(r.code)
ResultName(r) == IF r.t = "none" THEN PyNone ELSE [t |-> "name", name |-> r.name]

\* VCPCode(vcp).get_vcp_code()
get_vcp_code(vcp) == ResultCode(_lookup(vcp, PyNone))

\* VCPCode(vcp).get_vcp_name()
get_vcp_name(vcp) == ResultName(_lookup(vcp, PyNone))

\* VCPCode(vcp, value).get_value_code()
get_value_code(vcp, val) == ResultCode(_lookup(vcp, val))

\* VCPCode(vcp, value).get_value_name()
get_value_name(vcp, val) == ResultName(_lookup(vcp, val))

----------------------------------------------------------------------------
(* DDCSession *)

_get_vcp_code(vcp) == IntOr(IntBase0(vcp), get_vcp_code(PyStr(vcp)))

\* A variant that takes the token ? for the number 0.
_get_value_code_QueryAsZero(val) ==
    IF val = <<"?">> THEN PyInt(0)
    ELSE IntOr(IntBase0(val), get_value_code(PyStr(val), PyNone))

\* VCPCode(value).get_value_code(): the value string is the VCPCode's vcp.
_get_value_code(val) == IntOr(IntBase0(val), get_value_code(PyStr(val), PyNone))

\* The checks of _convert_vcp_and_value on the two codes: None (ok FALSE,
\* with the line printed) or the tuple (vcpcode, valuecode).
ConvertedPair(vc, vv, val) ==
    IF vc.t = "none"
    THEN [ok |-> FALSE, vcpcode |-> vc, valuecode |-> vv,
          msg |-> "Ignoring unrecognized VCP code"]
    ELSE IF vv.t = "none" /\ val # <<"?">>
    THEN [ok |-> FALSE, vcpcode |-> vc, valuecode |-> vv,
          msg |-> "Ignoring unrecognized VCP value"]
    ELSE [ok |-> TRUE, vcpcode |-> vc, valuecode |-> vv, msg |-> ""]

_convert_vcp_and_value(vcp, val) ==
    ConvertedPair(_get_vcp_code(vcp), _get_value_code(val), val)

\* A variant without the membership check.
NotAllowed_Never(allowed_values, v) == FALSE

\* if allowed_values is not None and valuecode not in allowed_values.keys()
NotAllowed(allowed_values, v) ==
    allowed_values.t # "none" /\ v \notin DOMAIN allowed_values.d

\* A variant without the upper limit.
OutOfRange_NoUpper(v, maximum) == v < 0

\* if valuecode > maximum or valuecode < 0
OutOfRange(v, maximum) == v > maximum \/ v < 0

\* if valuecode is None: return  (after the current value was printed)
QueryOnly(vv) == vv.t = "none"

\* A variant without the capability check.
Unsupported_Never(caps_vcp, code) == FALSE

\* if vcpcode not in parsed_caps["vcp"].keys()
Unsupported(caps_vcp, code) == code \notin DOMAIN caps_vcp.d

\* No DDCInterface operation is started.
engine_untouched ==
    /\ op' = "none"
    /\ control' = 0
    /\ value' = 0
    /\ message' = <<>>
    /\ sleep' = 0
    /\ no_retry

\* A variant that sends a requested value without asking first.
getset_get_value_SetFirst(c) ==
    /\ printed' = <<>>
    /\ IF valuecode'.t = "int" /\ valuecode'.i \in 0..65535
       THEN set_value_enter(c, valuecode'.i)
       ELSE /\ value' = 0
            /\ get_value_enter(c)

\* result = self._interface.get_value(vcpcode), up to the first transport
\* call of get_value.
getset_get_value(c) ==
    /\ printed' = <<>>
    /\ value' = 0
    /\ get_value_enter(c)

\* getset once the codes are converted and the capabilities parsed, up to
\* the first transport call of get_value.
getset_checks(codes, caps) ==
    IF ~codes.ok
    THEN /\ vcpcode' = PyNone
         /\ valuecode' = PyNone
         /\ parsed_caps' = ValNone
         /\ printed' = <<codes.msg>>
         /\ Return
         /\ engine_untouched
    ELSE /\ vcpcode' = codes.vcpcode
         /\ valuecode' = codes.valuecode
         /\ IF ~caps.ok
            THEN /\ parsed_caps' = ValNone
                 /\ printed' = <<>>
                 /\ Raise(Exc(caps.err, 0))
                 /\ engine_untouched
            ELSE /\ parsed_caps' = caps.v
                 /\ IF "vcp" \notin DOMAIN caps.v.d
                    THEN /\ printed' = <<>>
                         /\ Raise(Exc("KeyError: 'vcp'", 0))
                         /\ engine_untouched
                    ELSE IF Unsupported(caps.v.d["vcp"], codes.vcpcode.i)
                    THEN /\ printed' = <<"Ignoring request: VCP code is not supported by this device">>
                         /\ Return
                         /\ engine_untouched
                    ELSE getset_get_value(codes.vcpcode.i)

\* getset from its entry to the first transport call of get_value.
getset_enter(vcp, val) ==
    /\ gs_vcp' = vcp
    /\ gs_value' = val
    /\ getset_checks(_convert_vcp_and_value(vcp, val),
                     parse_capabilities(raw_caps))

\* getset after get_value has returned: the checks on the reply and on the
\* requested value, up to the first transport call of set_value.
getset_result ==
    /\ pc = "getset_result"
    /\ LET r == result[1]
           allowed_values == parsed_caps.d["vcp"].d[vcpcode.i]
           skip(msg) ==
               /\ printed' = Append(printed, msg)
               /\ Return
               /\ UNCHANGED <<op, control, value, message, sleep, fn, attempt,
                              saved_exception>>
       IN IF r.errno # 0
          THEN skip("Display does not recognize VCP")
          ELSE IF r.opcode # vcpcode.i
          THEN skip("Ignoring unexpected response")
          ELSE IF QueryOnly(valuecode)
          THEN skip("Current value of VCP")
          ELSE IF NotAllowed(allowed_values, valuecode.i)
          THEN skip("Ignoring request to set: Value not one of the supported items")
          ELSE IF OutOfRange(valuecode.i, r.maximum)
          THEN skip("Ignoring request to set: Value is outside the supported range")
          ELSE /\ set_value_enter(vcpcode.i, valuecode.i)
               /\ UNCHANGED printed
    /\ UNCHANGED <<entry, data, result, log, tries, rx, budget, faults,
                   session_args, caps_vars, cs_vars, fn_vars>>

----------------------------------------------------------------------------
(* One session: a display whose capability string has been read, and      *)
(* getset requests as main makes them for the arguments VCP=VALUE.         *)

CapabilityStrings == {
    \* (prot(monitor)cmds(01 02 03)vcp(10 12 14(04 05 96) DF))
    <<
        "(", "p", "r", "o", "t", "(", "m", "o", "n", "i", "t", "o", "r",
        ")", "c", "m", "d", "s", "(", "0", "1", " ", "0", "2", " ", "0",
        "3", ")", "v", "c", "p", "(", "1", "0", " ", "1", "2", " ", "1",
        "4", "(", "0", "4", " ", "0", "5", " ", "9", "6", ")", " ", "D",
        "F", ")", ")">>,
    \* (vcp(14 DF))
    <<
        "(", "v", "c", "p", "(", "1", "4", " ", "D", "F", ")", ")">>}

VcpTokens == {
    <<"0", "x", "1", "0">>,
    <<"b", "r", "i", "g", "h", "t", "n", "e", "s", "s">>,
    <<"2", "0">>,
    <<"d", "e", "g", "a", "u", "s", "s">>,
    <<"n", "o", "p", "e">>}

ValueTokens == {
    <<"?">>,
    <<"5", "0">>,
    <<"1", "5", "0">>,
    <<"5">>,
    <<"-", "1">>,
    <<"6", "5", "0", "0", "-", "k">>}

\* Faults the transport may inject during one getset call.
MaxFaults == 2

CallGetset ==
    /\ Ready
    /\ \E vcp \in VcpTokens, val \in ValueTokens :
         /\ entry' = "getset"
         /\ fresh_call
         /\ getset_enter(vcp, val)
    /\ UNCHANGED <<budget, raw_caps, run_vars, argv, argi, caps_vars, cs_vars, fn_vars>>

\* A variant that leaves the loop when the call has printed a refusal.
main_next_arg_Break ==
    /\ pc = "idle"
    /\ outcome.status = "returned"
    /\ ready_state
    /\ argi' = IF printed # <<>> /\ printed[Len(printed)] # "Set value of VCP"
               THEN Len(argv) ELSE argi
    /\ UNCHANGED <<budget, raw_caps, run_vars, argv, caps_vars, cs_vars, fn_vars>>

\* main's for loop: getset has returned and the next argument is taken.
\* (An exception raised by getset is not caught: it ends the loop.)
main_next_arg ==
    /\ pc = "idle"
    /\ outcome.status = "returned"
    /\ ready_state
    /\ UNCHANGED <<budget, raw_caps, run_vars, argv, argi, caps_vars, cs_vars, fn_vars>>

Init ==
    /\ InitIdle
    /\ budget = MaxFaults
    /\ raw_caps \in CapabilityStrings
    /\ argv = <<>>
    /\ argi = 0
    /\ run = "none"
    /\ device = "open"
    /\ display = "paged"
    /\ cs_in = <<>>
    /\ cs_out = <<>>
    /\ call_args = <<>>

Next ==
    \/ CallGetset
    \/ main_next_arg
    \/ getset_result
    \/ _write_once
    \/ _write_once_sleep
    \/ _retry_sleep
    \/ _read_once_header
    \/ _read_once_body
    \/ _read_once_sleep
    \/ get_value_reply

Spec == Init /\ [][Next]_vars

----------------------------------------------------------------------------
(* main: one run over the arguments after the path, on an open session.    *)

\* The capability string of the session of the run.
MainCapabilities ==
    \* (prot(monitor)cmds(01 02 03)vcp(10 12 14(04 05 96) DF))
    <<
        "(", "p", "r", "o", "t", "(", "m", "o", "n", "i", "t", "o", "r",
        ")", "c", "m", "d", "s", "(", "0", "1", " ", "0", "2", " ", "0",
        "3", ")", "v", "c", "p", "(", "1", "0", " ", "1", "2", " ", "1",
        "4", "(", "0", "4", " ", "0", "5", " ", "9", "6", ")", " ", "D",
        "F", ")", ")">>

\* Arguments of a run: VCP=VALUE requests that getset refuses (nope=5,
\* 0x10=6500-k, degauss=5, 20=50, 0x10=-1), one it carries out (0x10=50),
\* dump, list and an argument of no known form.
Arguments == {
    <<"n", "o", "p", "e", "=", "5">>,
    <<"0", "x", "1", "0", "=", "6", "5", "0", "0", "-", "k">>,
    <<"d", "e", "g", "a", "u", "s", "s", "=", "5">>,
    <<"2", "0", "=", "5", "0">>,
    <<"0", "x", "1", "0", "=", "-", "1">>,
    <<"0", "x", "1", "0", "=", "5", "0">>,
    <<"d", "u", "m", "p">>,
    <<"l", "i", "s", "t">>,
    <<"b", "o", "g", "u", "s">>}

\* Arguments after the path in one run.
MaxArgs == 2

RECURSIVE ArgumentLists(_)
ArgumentLists(n) ==
    IF n = 0 THEN {<<>>}
    ELSE ArgumentLists(n - 1)
         \cup {Append(l, a) : l \in {x \in ArgumentLists(n - 1) : Len(x) = n - 1},
                              a \in Arguments}

\* re.match(r"(.+)=(.+)", arg): the places of an = with a character before
\* it and one after it (no argument holds a newline).
EqualSigns(arg) == {p \in 2..(Len(arg) - 1) : arg[p] = "="}

MaxOf(S) == CHOOSE x \in S : \A y \in S : y <= x

\* Both groups are greedy: the first one ends before the last such =.
getset_match(arg) ==
    IF EqualSigns(arg) = {} THEN [ok |-> FALSE, vcp |-> <<>>, value |-> <<>>]
    ELSE LET p == MaxOf(EqualSigns(arg))
         IN [ok |-> TRUE, vcp |-> SubSeq(arg, 1, p - 1),
             value |-> SubSeq(arg, p + 1, Len(arg))]

\* A session method other than getset prints (or raises) without a
\* transport call.
no_getset ==
    /\ gs_vcp' = <<>>
    /\ gs_value' = <<>>
    /\ vcpcode' = PyNone
    /\ valuecode' = PyNone
    /\ engine_untouched

\* print(self._raw_caps)
print_cap_dump ==
    /\ entry' = "print_cap_dump"
    /\ no_getset
    /\ parsed_caps' = ValNone
    /\ printed' = <<Join(raw_caps)>>
    /\ Return

\* list_capabilities calls .keys() on the values of vcp and cmds.
ListRaises(tree) ==
    \E key \in DOMAIN tree.d \cap {"vcp", "cmds"} : tree.d[key].t # "dict"

\* print(DDCParser.list_capabilities(parse_capabilities(self._raw_caps))):
\* the text of the listing is not modelled.
print_cap_info(caps) ==
    /\ entry' = "print_cap_info"
    /\ no_getset
    /\ IF ~caps.ok
       THEN /\ parsed_caps' = ValNone
            /\ printed' = <<>>
            /\ Raise(Exc(caps.err, 0))
       ELSE /\ parsed_caps' = caps.v
            /\ IF ListRaises(caps.v)
               THEN /\ printed' = <<>>
                    /\ Raise(Exc("AttributeError", 0))
               ELSE /\ printed' = <<"list_capabilities">>
                    /\ Return

\* print(f"Ignoring unknown argument {arg}")
unknown_argument ==
    /\ entry' = "main"
    /\ no_getset
    /\ parsed_caps' = ValNone
    /\ printed' = <<"Ignoring unknown argument">>
    /\ Return

\* One turn of main's for loop, up to the first transport call of the
\* session method it calls or to the method's end.
main_arg ==
    /\ Ready
    /\ argi < Len(argv)
    /\ argi' = argi + 1
    /\ fresh_call
    /\ LET arg == argv[argi + 1]
           m == getset_match(arg)
       IN IF arg = <<"d", "u", "m", "p">> THEN print_cap_dump
          ELSE IF arg = <<"l", "i", "s", "t">>
          THEN print_cap_info(parse_capabilities(raw_caps))
          ELSE IF m.ok
          THEN /\ entry' = "getset"
               /\ getset_enter(m.vcp, m.value)
          ELSE unknown_argument
    /\ UNCHANGED <<budget, raw_caps, run_vars, argv, caps_vars, cs_vars, fn_vars>>

\* The session is open; the transport may fail once during each call.
InitMain ==
    /\ InitIdle
    /\ budget = 1
    /\ raw_caps = MainCapabilities
    /\ argv \in ArgumentLists(MaxArgs)
    /\ argi = 0
    /\ run = "none"
    /\ device = "open"
    /\ display = "paged"
    /\ cs_in = <<>>
    /\ cs_out = <<>>
    /\ call_args = <<>>

NextMain ==
    \/ main_arg
    \/ main_next_arg
    \/ getset_result
    \/ _write_once
    \/ _write_once_sleep
    \/ _retry_sleep
    \/ _read_once_header
    \/ _read_once_body
    \/ _read_once_sleep
    \/ get_value_reply

SpecMain == InitMain /\ [][NextMain]_vars

----------------------------------------------------------------------------
(* A run of main: the session is opened and the capability string read,    *)
(* the arguments are carried out in order, and the session is closed. The  *)
(* display pages its string, over a transport that may fail once during    *)
(* the exchange, or is silent; once the session is open the transport may  *)
(* fail in every call as often as one _retry loop takes.                   *)

\* The ASCII characters from the space (32) to the underscore (95), and
\* from "a" (97) to the tilde (126).
AsciiLow == <<
    " ", "!", "\"", "#", "$", "%", "&", "'", "(", ")", "*", "+",
    ",", "-", ".", "/", "0", "1", "2", "3", "4", "5", "6", "7",
    "8", "9", ":", ";", "<", "=", ">", "?", "@", "A", "B", "C",
    "D", "E", "F", "G", "H", "I", "J", "K", "L", "M", "N", "O",
    "P", "Q", "R", "S", "T", "U", "V", "W", "X", "Y", "Z", "[",
    "\\", "]", "^", "_">>

AsciiHigh == <<
    "a", "b", "c", "d", "e", "f", "g", "h", "i", "j", "k", "l",
    "m", "n", "o", "p", "q", "r", "s", "t", "u", "v", "w", "x",
    "y", "z", "{", "|", "}", "~">>

chr(b) == IF b < 96 THEN AsciiLow[b - 31] ELSE AsciiHigh[b - 96]

\* str(result, "ASCII") for a capability string of these characters.
str_ascii(bytes) == [i \in DOMAIN bytes |-> chr(bytes[i])]

\* sys.argv[2:] of the runs followed: no argument, dump and then a request
\* that is carried out, a refused request and then list.
RunArgumentLists == {
    <<>>,
    <<<<"d", "u", "m", "p">>, <<"0", "x", "1", "0", "=", "5", "0">>>>,
    <<<<"n", "o", "p", "e", "=", "5">>, <<"l", "i", "s", "t">>>>}

\* What a step of the run outside the interface leaves alone.
call_state == <<entry, op, pc, control, value, message, sleep, fn, attempt,
                saved_exception, data, result, outcome, log, tries, rx,
                faults>>

getset_locals == <<gs_vcp, gs_value, vcpcode, valuecode, parsed_caps>>

\* if len(sys.argv) <= 2: print(__doc__); return
main_usage ==
    /\ run = "start"
    /\ argv = <<>>
    /\ printed' = <<"usage">>
    /\ run' = "done"
    /\ UNCHANGED <<call_state, budget, raw_caps, getset_locals, argv, argi,
                   device, display, caps_vars, cs_vars, fn_vars>>

\* DDCSession.__enter__: the __enter__ of the device raises (no such port,
\* no permission): nothing is open and the exception ends the run.
session_open_fails ==
    /\ run = "start"
    /\ argv # <<>>
    /\ run' = "open_failed"
    /\ UNCHANGED <<call_state, budget, raw_caps, getset_locals, printed, argv,
                   argi, device, display, caps_vars, cs_vars, fn_vars>>

\* DDCSession.__enter__ up to the first transport call: the device is
\* opened, the interface made, and request_capabilities called.
session_open ==
    /\ run = "start"
    /\ argv # <<>>
    /\ device' = "open"
    /\ run' = "enter"
    /\ printed' = <<"Requesting features...">>
    /\ entry' = "request_capabilities"
    /\ op' = "request_capabilities"
    /\ control' = 0
    /\ value' = 0
    /\ fresh_call
    /\ offset' = 0
    /\ caps_result' = <<>>
    /\ capabilities_request(0)
    /\ UNCHANGED <<budget, raw_caps, getset_locals, argv, argi, display,
                   cs_vars, fn_vars>>

\* A variant that also takes a call that has raised for one that returned.
EnterReturned_OrRaised == pc = "idle" /\ outcome.status # "none"

\* self._raw_caps = self._interface.request_capabilities() goes on to the
\* assignment only when the call returns.
EnterReturned == pc = "idle" /\ outcome.status = "returned"

\* request_capabilities has returned: self._raw_caps is set, __enter__
\* returns and the body of the with statement begins.
session_entered ==
    /\ run = "enter"
    /\ EnterReturned
    /\ raw_caps' = str_ascii(caps_result)
    /\ run' = "loop"
    /\ budget' = retries + 1
    /\ ready_state
    /\ UNCHANGED <<argv, argi, device, display, caps_vars, cs_vars, fn_vars>>

\* request_capabilities has raised inside __enter__: the exception leaves
\* __enter__ and the with statement, whose __exit__ is not called for a
\* context that was never entered.
session_enter_raised ==
    /\ run = "enter"
    /\ pc = "idle"
    /\ outcome.status = "raised"
    /\ run' = "enter_failed"
    /\ UNCHANGED <<call_state, budget, raw_caps, getset_locals, printed, argv,
                   argi, device, display, caps_vars, cs_vars, fn_vars>>

\* The for loop of main inside the with statement.
run_arg == run = "loop" /\ main_arg

run_next_arg == run = "loop" /\ main_next_arg

\* DDCSession.__exit__: the device is closed.
session_close ==
    /\ device' = "closed"
    /\ raw_caps' = <<>>

\* The for loop has taken every argument: the with statement ends.
session_exit ==
    /\ run = "loop"
    /\ Ready
    /\ argi = Len(argv)
    /\ session_close
    /\ run' = "done"
    /\ UNCHANGED <<call_state, budget, getset_locals, printed, argv, argi,
                   display, caps_vars, cs_vars, fn_vars>>

\* A call in the body has raised: the with statement calls __exit__ and
\* the exception ends the run.
session_exit_raised ==
    /\ run = "loop"
    /\ pc = "idle"
    /\ outcome.status = "raised"
    /\ session_close
    /\ run' = "aborted"
    /\ UNCHANGED <<call_state, budget, getset_locals, printed, argv, argi,
                   display, caps_vars, cs_vars, fn_vars>>

\* The run has ended, by the end of main or by an exception.
RunEnded == run \in {"done", "open_failed", "enter_failed", "aborted"}

InitRun ==
    /\ InitIdle
    /\ \/ display = "paged" /\ budget = 1
       \/ display = "silent" /\ budget = retries + 1
    /\ raw_caps = <<>>
    /\ argv \in RunArgumentLists
    /\ argi = 0
    /\ run = "start"
    /\ device = "unopened"
    /\ cs_in = <<>>
    /\ cs_out = <<>>
    /\ call_args = <<>>

NextRun ==
    \/ main_usage
    \/ session_open_fails
    \/ session_open
    \/ session_entered
    \/ session_enter_raised
    \/ run_arg
    \/ run_next_arg
    \/ session_exit
    \/ session_exit_raised
    \/ getset_result
    \/ _write_once
    \/ _write_once_sleep
    \/ _retry_sleep
    \/ _read_once_header
    \/ _read_once_body
    \/ _read_once_sleep
    \/ get_value_reply
    \/ capabilities_reply

SpecRun == InitRun /\ [][NextRun]_vars

----------------------------------------------------------------------------
(* The checksum on its own: byte strings of bounded length over a sample   *)
(* of bytes, checksummed, and checksummed again with the result appended.  *)

MaxLen == 3

SampleBytes == {0, 1, 80, 110, 111, 128, 190, 255}

RECURSIVE ByteStrings(_)
ByteStrings(n) ==
    IF n = 0 THEN {<<>>}
    ELSE LET shorter == ByteStrings(n - 1)
         IN shorter \cup {Append(b, c) : b \in {x \in shorter : Len(x) = n - 1},
                                         c \in SampleBytes}

InitChecksum ==
    /\ InitIdle
    /\ budget = 0
    /\ raw_caps = <<>>
    /\ argv = <<>>
    /\ argi = 0
    /\ run = "none"
    /\ device = "open"
    /\ display = "paged"
    /\ cs_in \in ByteStrings(MaxLen)
    /\ cs_out = <<>>
    /\ call_args = <<>>

\* checksum(a)
ChecksumOnce ==
    /\ cs_out = <<>>
    /\ cs_out' = <<_checksum(cs_in, <<>>)>>
    /\ UNCHANGED <<entry, op, pc, control, value, message, sleep, fn, attempt,
                   saved_exception, data, result, outcome, log, tries, rx,
                   budget, faults, session_vars, caps_vars, cs_in, fn_vars>>

\* checksum(a ++ [checksum(a)])
ChecksumAppended ==
    /\ Len(cs_out) = 1
    /\ cs_out' = Append(cs_out, _checksum(Append(cs_in, cs_out[1]), <<>>))
    /\ UNCHANGED <<entry, op, pc, control, value, message, sleep, fn, attempt,
                   saved_exception, data, result, outcome, log, tries, rx,
                   budget, faults, session_vars, caps_vars, cs_in, fn_vars>>

\* x = message + bytes({DDCInterface._checksum(message)}) in _write_once
frame(b) == Append(b, _checksum(b, <<>>))

\* The test _read_once makes on a buffer: DDCInterface._checksum(data, 0x50)
deframe_checksum(raw) == _checksum(raw, <<80>>)

\* The buffer without its checksum byte.
deframe_payload(raw) == SubSeq(raw, 1, Len(raw) - 1)

\* checksum(frame(a), 0x50): the read path's test applied to what the write
\* path's framing produces.
ChecksumDeframed ==
    /\ Len(cs_out) = 2
    /\ cs_out' = Append(cs_out, deframe_checksum(frame(cs_in)))
    /\ UNCHANGED <<entry, op, pc, control, value, message, sleep, fn, attempt,
                   saved_exception, data, result, outcome, log, tries, rx,
                   budget, faults, session_vars, caps_vars, cs_in, fn_vars>>

NextChecksum ==
    \/ ChecksumOnce
    \/ ChecksumAppended
    \/ ChecksumDeframed

SpecChecksum == InitChecksum /\ [][NextChecksum]_vars

----------------------------------------------------------------------------
(* DDCParser on its own: parse_capabilities, _convert_blobtree and the     *)
(* pair _parse_tree/_unparse_tree applied to strings of a bounded set.     *)

\* The capability string of the docstring of parse_capabilities.
Cintiq13HD == <<
    "(", "p", "r", "o", "t", "(", "m", "o", "n", "i", "t", "o", "r", ")",
    "t", "y", "p", "e", "(", "L", "C", "D", ")", "m", "o", "d", "e", "l",
    "(", "W", "a", "c", "o", "m", " ", "C", "i", "n", "t", "i", "q", " ",
    "1", "3", "H", "D", ")", "c", "m", "d", "s", "(", "0", "1", " ", "0",
    "2", " ", "0", "3", " ", "0", "7", " ", "0", "C", " ", "E", "3", " ",
    "F", "3", ")", "v", "c", "p", "(", "0", "2", " ", "0", "4", " ", "0",
    "8", " ", "1", "0", " ", "1", "2", " ", "1", "4", "(", "0", "4", " ",
    "0", "5", " ", "0", "8", " ", "0", "B", ")", " ", "1", "6", " ", "1",
    "8", " ", "1", "A", " ", "5", "2", " ", "6", "C", " ", "6", "E", " ",
    "7", "0", " ", "8", "6", "(", "0", "3", " ", "0", "8", ")", " ", "A",
    "C", " ", "A", "E", " ", "B", "6", " ", "C", "8", " ", "D", "F", ")",
    "m", "s", "w", "h", "q", "l", "(", "1", ")", "a", "s", "s", "e", "t",
    "_", "e", "e", "p", "(", "4", "0", ")", "m", "c", "c", "s", "_", "v",
    "e", "r", "(", "2", ".", "1", ")", ")">>

\* The longest string drawn from the alphabet.
MaxChars == 4

Alphabet == {"(", ")", " ", "a", "b"}

RECURSIVE Strings(_)
\* The strings of at most n characters of the alphabet.
Strings(n) ==
    IF n = 0 THEN {<<>>}
    ELSE LET shorter == Strings(n - 1)
         IN shorter \cup {Append(s, c) : s \in {x \in shorter : Len(x) = n - 1},
                                         c \in Alphabet}

\* Pieces of the body of a cmds or vcp section: codes, and groups that hold
\* codes, nothing, or a group of their own.
BlobPieces == {
    <<"1", "4">>,
    <<"0">>,
    <<"(", "0", "4", " ", "0", "5", ")">>,
    <<"(", ")">>,
    <<"(", "(", "0", "1", ")", ")">>,
    <<"(", "0", "5", "(", "0", "1", ")", ")">>}

\* Bodies of one to three pieces, a space between two pieces.
BlobBodies ==
    BlobPieces
    \cup {p \o <<" ">> \o q : p, q \in BlobPieces}
    \cup {p \o <<" ">> \o q \o <<" ">> \o r : p, q, r \in BlobPieces}

\* The body b as the vcp section of a capability string, after a model
\* section.
InVcp(b) ==
    <<"(", "m", "(", "x", ")", "v", "c", "p", "(">> \o b \o <<")", ")">>

\* Values of keys other than cmds and vcp.
LeafTexts == {
    <<"m", "o", "n", "i", "t", "o", "r">>,
    <<"W", "a", "c", "o", "m", " ", "C", "i", "n", "t", "i", "q", " ",
      "1", "3", "H", "D">>,
    <<"2", ".", "1">>,
    <<"a", " ", " ", "b">>,
    <<" ", "a">>,
    <<"a", " ">>,
    <<>>}

LeafKeys == {<<"p", "r", "o", "t">>, <<"m", "o", "d", "e", "l">>}

\* key(text)
Section(key, text) == key \o <<"(">> \o text \o <<")">>

\* Capability strings of one section, and of a text section in front of a
\* vcp section.
SectionStrings ==
    {<<"(">> \o Section(k, t) \o <<")">> : k \in LeafKeys, t \in LeafTexts}
    \cup {<<"(">> \o Section(k, t)
              \o Section(<<"v", "c", "p">>, <<"1", "0", " ", "1", "4", "(", "0", "5", ")">>)
              \o <<")">> : k \in LeafKeys, t \in LeafTexts}

\* Bodies of a vcp section whose tokens are not two hex digits: 100,
\* 14(100), -1, 0x10 and 14 abc.
OddCodeBodies == {
    <<"1", "0", "0">>,
    <<"1", "4", "(", "1", "0", "0", ")">>,
    <<"-", "1">>,
    <<"0", "x", "1", "0">>,
    <<"1", "4", " ", "a", "b", "c">>}

ParserInputs ==
    {Cintiq13HD} \cup Strings(MaxChars) \cup LeafTexts \cup BlobBodies
    \cup {InVcp(b) : b \in BlobBodies \cup OddCodeBodies} \cup SectionStrings

\* What a call gave back, under the name of the method.
Called(name, v) == [fn |-> name, v |-> v]

\* Has the method been called?
WasCalled(name) == \E i \in DOMAIN call_ret : call_ret[i].fn = name

\* What the call of the method gave back.
Returned(name) ==
    call_ret[CHOOSE i \in DOMAIN call_ret : call_ret[i].fn = name].v

NoParens(s) == \A i \in DOMAIN s : s[i] \notin {"(", ")"}

InitParser ==
    /\ InitIdle
    /\ budget = 0
    /\ raw_caps = <<>>
    /\ argv = <<>>
    /\ argi = 0
    /\ run = "none"
    /\ device = "open"
    /\ display = "paged"
    /\ cs_in = <<>>
    /\ cs_out = <<>>
    /\ call_args \in ParserInputs

\* DDCParser.parse_capabilities(raw_caps)
CallParseCapabilities ==
    /\ ~WasCalled("parse_capabilities")
    /\ call_ret' = Append(call_ret, Called("parse_capabilities",
                                            parse_capabilities(call_args)))
    /\ UNCHANGED <<entry, op, pc, control, value, message, sleep, fn, attempt,
                   saved_exception, data, result, outcome, log, tries, rx,
                   budget, faults, session_vars, caps_vars, cs_vars, call_args>>

\* The tokens of a string without parentheses put together again:
\* DDCParser._unparse_tree(DDCParser._parse_tree(s, " "), " ")
Reflattened(tree) == _unparse_tree(ListNode(tree.nodes), <<" ">>)

CallReflatten ==
    /\ WasCalled("parse_capabilities")
    /\ ~WasCalled("_unparse_tree")
    /\ NoParens(call_args)
    /\ call_ret' = Append(call_ret, Called("_unparse_tree",
                       Reflattened(_parse_tree(call_args, <<" ">>, 0))))
    /\ UNCHANGED <<entry, op, pc, control, value, message, sleep, fn, attempt,
                   saved_exception, data, result, outcome, log, tries, rx,
                   budget, faults, session_vars, caps_vars, cs_vars, call_args>>

\* DDCParser._convert_blobtree(tree) for the tree of the string, when the
\* string has one.
BlobOf(tree) ==
    IF tree.kind = "list" THEN _convert_blobtree(ListNode(tree.nodes))
    ELSE ConvertError(tree.err)

CallConvertBlobtree ==
    /\ WasCalled("parse_capabilities")
    /\ ~WasCalled("_convert_blobtree")
    /\ call_ret' = Append(call_ret, Called("_convert_blobtree",
                       BlobOf(_parse_tree(call_args, <<" ">>, 0))))
    /\ UNCHANGED <<entry, op, pc, control, value, message, sleep, fn, attempt,
                   saved_exception, data, result, outcome, log, tries, rx,
                   budget, faults, session_vars, caps_vars, cs_vars, call_args>>

NextParser ==
    \/ CallParseCapabilities
    \/ CallReflatten
    \/ CallConvertBlobtree

SpecParser == InitParser /\ [][NextParser]_vars

----------------------------------------------------------------------------
(* VCPCode on its own: the four lookups of a VCPCode(vcp, value) for the   *)
(* codes, names and numerals of the whole table, and for tokens that are   *)
(* not in it.                                                              *)

\* The names of the controls of the table, as the strings a caller passes.
ControlNames == {
    <<"d", "e", "g", "a", "u", "s", "s">>,
    <<"n", "e", "w", "-", "c", "o", "n", "t", "r", "o", "l", "-", "v", "a",
      "l", "u", "e">>,
    <<"s", "o", "f", "t", "-", "c", "o", "n", "t", "r", "o", "l", "s">>,
    <<"r", "e", "s", "t", "o", "r", "e", "-", "f", "a", "c", "t", "o", "r",
      "y", "-", "d", "e", "f", "a", "u", "l", "t", "s">>,
    <<"r", "e", "s", "t", "o", "r", "e", "-", "f", "a", "c", "t", "o", "r",
      "y", "-", "b", "r", "i", "g", "h", "t", "n", "e", "s", "s", "-", "c",
      "o", "n", "t", "r", "a", "s", "t", "-", "d", "e", "f", "a", "u", "l",
      "t", "s">>,
    <<"r", "e", "s", "t", "o", "r", "e", "-", "f", "a", "c", "t", "o", "r",
      "y", "-", "g", "e", "o", "m", "e", "t", "r", "y", "-", "d", "e", "f",
      "a", "u", "l", "t", "s">>,
    <<"r", "e", "s", "t", "o", "r", "e", "-", "c", "o", "l", "o", "r", "-",
      "d", "e", "f", "a", "u", "l", "t", "s">>,
    <<"r", "e", "s", "t", "o", "r", "e", "-", "f", "a", "c", "t", "o", "r",
      "y", "-", "t", "v", "-", "d", "e", "f", "a", "u", "l", "t", "s">>,
    <<"c", "o", "l", "o", "r", "-", "t", "e", "m", "p", "e", "r", "a", "t",
      "u", "r", "e", "-", "i", "n", "c", "r", "e", "m", "e", "n", "t">>,
    <<"c", "o", "l", "o", "r", "-", "t", "e", "m", "p", "e", "r", "a", "t",
      "u", "r", "e", "-", "r", "e", "q", "u", "e", "s", "t">>,
    <<"c", "l", "o", "c", "k">>,
    <<"b", "r", "i", "g", "h", "t", "n", "e", "s", "s">>,
    <<"f", "l", "e", "s", "h", "-", "t", "o", "n", "e", "-", "e", "n", "h",
      "a", "n", "c", "e", "m", "e", "n", "t">>,
    <<"c", "o", "n", "t", "r", "a", "s", "t">>,
    <<"b", "a", "c", "k", "l", "i", "g", "h", "t", "-", "c", "o", "n", "t",
      "r", "o", "l">>,
    <<"s", "e", "l", "e", "c", "t", "-", "c", "o", "l", "o", "r", "-", "p",
      "r", "e", "s", "e", "t">>,
    <<"v", "i", "d", "e", "o", "-", "g", "a", "i", "n", "-", "r", "e", "d">>,
    <<"u", "s", "e", "r", "-", "c", "o", "l", "o", "r", "-", "v", "i", "s",
      "i", "o", "n", "-", "c", "o", "m", "p", "e", "n", "s", "a", "t", "i",
      "o", "n">>,
    <<"v", "i", "d", "e", "o", "-", "g", "a", "i", "n", "-", "g", "r", "e",
      "e", "n">>,
    <<"v", "i", "d", "e", "o", "-", "g", "a", "i", "n", "-", "b", "l", "u",
      "e">>,
    <<"f", "o", "c", "u", "s">>,
    <<"a", "u", "t", "o", "-", "s", "e", "t", "u", "p">>,
    <<"a", "u", "t", "o", "-", "c", "o", "l", "o", "r", "-", "s", "e", "t",
      "u", "p">>,
    <<"h", "o", "r", "i", "z", "o", "n", "t", "a", "l", "-", "p", "o", "s",
      "i", "t", "i", "o", "n", "-", "p", "h", "a", "s", "e">>,
    <<"h", "o", "r", "i", "z", "o", "n", "t", "a", "l", "-", "s", "i", "z",
      "e">>,
    <<"h", "o", "r", "i", "z", "o", "n", "t", "a", "l", "-", "p", "i", "n",
      "c", "u", "s", "h", "i", "o", "n">>,
    <<"h", "o", "r", "i", "z", "o", "n", "t", "a", "l", "-", "p", "i", "n",
      "c", "u", "s", "h", "i", "o", "n", "-", "b", "a", "l", "a", "n", "c",
      "e">>,
    <<"h", "o", "r", "i", "z", "o", "n", "t", "a", "l", "-", "c", "o", "n",
      "v", "e", "r", "g", "e", "n", "c", "e", "-", "r", "-", "b">>,
    <<"h", "o", "r", "i", "z", "o", "n", "t", "a", "l", "-", "c", "o", "n",
      "v", "e", "r", "g", "e", "n", "c", "e", "-", "m", "-", "g">>,
    <<"h", "o", "r", "i", "z", "o", "n", "t", "a", "l", "-", "l", "i", "n",
      "e", "a", "r", "i", "t", "y">>,
    <<"h", "o", "r", "i", "z", "o", "n", "t", "a", "l", "-", "l", "i", "n",
      "e", "a", "r", "i", "t", "y", "-", "b", "a", "l", "a", "n", "c", "e">>,
    <<"g", "r", "a", "y", "-", "s", "c", "a", "l", "e", "-", "e", "x", "p",
      "a", "n", "s", "i", "o", "n">>,
    <<"v", "e", "r", "t", "i", "c", "a", "l", "-", "p", "o", "s", "i", "t",
      "i", "o", "n", "-", "p", "h", "a", "s", "e">>,
    <<"v", "e", "r", "t", "i", "c", "a", "l", "-", "s", "i", "z", "e">>,
    <<"v", "e", "r", "t", "i", "c", "a", "l", "-", "p", "i", "n", "c", "u",
      "s", "h", "i", "o", "n">>,
    <<"v", "e", "r", "t", "i", "c", "a", "l", "-", "p", "i", "n", "c", "u",
      "s", "h", "i", "o", "n", "-", "b", "a", "l", "a", "n", "c", "e">>,
    <<"v", "e", "r", "t", "i", "c", "a", "l", "-", "c", "o", "n", "v", "e",
      "r", "g", "e", "n", "c", "e", "-", "r", "-", "b">>,
    <<"v", "e", "r", "t", "i", "c", "a", "l", "-", "c", "o", "n", "v", "e",
      "r", "g", "e", "n", "c", "e", "-", "m", "-", "g">>,
    <<"v", "e", "r", "t", "i", "c", "a", "l", "-", "l", "i", "n", "e", "a",
      "r", "i", "t", "y">>,
    <<"v", "e", "r", "t", "i", "c", "a", "l", "-", "l", "i", "n", "e", "a",
      "r", "i", "t", "y", "-", "b", "a", "l", "a", "n", "c", "e">>,
    <<"c", "l", "o", "c", "k", "-", "p", "h", "a", "s", "e">>,
    <<"h", "o", "r", "i", "z", "o", "n", "t", "a", "l", "-", "p", "a", "r",
      "a", "l", "l", "e", "l", "o", "g", "r", "a", "m">>,
    <<"v", "e", "r", "t", "i", "c", "a", "l", "-", "p", "a", "r", "a", "l",
      "l", "e", "l", "o", "g", "r", "a", "m">>,
    <<"h", "o", "r", "i", "z", "o", "n", "t", "a", "l", "-", "k", "e", "y",
      "s", "t", "o", "n", "e">>,
    <<"v", "e", "r", "t", "i", "c", "a", "l", "-", "k", "e", "y", "s", "t",
      "o", "n", "e">>,
    <<"r", "o", "t", "a", "t", "i", "o", "n">>,
    <<"t", "o", "p", "-", "c", "o", "r", "n", "e", "r", "-", "f", "l", "a",
      "r", "e">>,
    <<"t", "o", "p", "-", "c", "o", "r", "n", "e", "r", "-", "h", "o", "o",
      "k">>,
    <<"b", "o", "t", "t", "o", "m", "-", "c", "o", "r", "n", "e", "r", "-",
      "f", "l", "a", "r", "e">>,
    <<"b", "o", "t", "t", "o", "m", "-", "c", "o", "r", "n", "e", "r", "-",
      "h", "o", "o", "k">>,
    <<"a", "c", "t", "i", "v", "e", "-", "c", "o", "n", "t", "r", "o", "l">>,
    <<"p", "e", "r", "f", "o", "r", "m", "a", "n", "c", "e", "-", "p", "r",
      "e", "s", "e", "r", "v", "a", "t", "i", "o", "n">>,
    <<"h", "o", "r", "i", "z", "o", "n", "t", "a", "l", "-", "m", "o", "i",
      "r", "e">>,
    <<"v", "e", "r", "t", "i", "c", "a", "l", "-", "m", "o", "i", "r", "e">>,
    <<"6", "-", "a", "x", "i", "s", "-", "s", "a", "t", "u", "r", "a", "t",
      "i", "o", "n", "-", "r", "e", "d">>,
    <<"6", "-", "a", "x", "i", "s", "-", "s", "a", "t", "u", "r", "a", "t",
      "i", "o", "n", "-", "y", "e", "l", "l", "o", "w">>,
    <<"6", "-", "a", "x", "i", "s", "-", "s", "a", "t", "u", "r", "a", "t",
      "i", "o", "n", "-", "g", "r", "e", "e", "n">>,
    <<"6", "-", "a", "x", "i", "s", "-", "s", "a", "t", "u", "r", "a", "t",
      "i", "o", "n", "-", "c", "y", "a", "n">>,
    <<"6", "-", "a", "x", "i", "s", "-", "s", "a", "t", "u", "r", "a", "t",
      "i", "o", "n", "-", "b", "l", "u", "e">>,
    <<"6", "-", "a", "x", "i", "s", "-", "s", "a", "t", "u", "r", "a", "t",
      "i", "o", "n", "-", "m", "a", "g", "e", "n", "t", "a">>,
    <<"i", "n", "p", "u", "t", "-", "s", "o", "u", "r", "c", "e">>,
    <<"a", "u", "d", "i", "o", "-", "s", "p", "e", "a", "k", "e", "r", "-",
      "v", "o", "l", "u", "m", "e">>,
    <<"s", "p", "e", "a", "k", "e", "r", "-", "s", "e", "l", "e", "c", "t">>,
    <<"a", "u", "d", "i", "o", "-", "m", "i", "c", "r", "o", "p", "h", "o",
      "n", "e", "-", "v", "o", "l", "u", "m", "e">>,
    <<"a", "m", "b", "i", "e", "n", "t", "-", "l", "i", "g", "h", "t", "-",
      "s", "e", "n", "s", "o", "r">>,
    <<"b", "a", "c", "k", "l", "i", "g", "h", "t", "-", "l", "e", "v", "e",
      "l", "-", "w", "h", "i", "t", "e">>,
    <<"v", "i", "d", "e", "o", "-", "b", "l", "a", "c", "k", "-", "l", "e",
      "v", "e", "l", "-", "r", "e", "d">>,
    <<"b", "a", "c", "k", "l", "i", "g", "h", "t", "-", "l", "e", "v", "e",
      "l", "-", "r", "e", "d">>,
    <<"v", "i", "d", "e", "o", "-", "b", "l", "a", "c", "k", "-", "l", "e",
      "v", "e", "l", "-", "g", "r", "e", "e", "n">>,
    <<"b", "a", "c", "k", "l", "i", "g", "h", "t", "-", "l", "e", "v", "e",
      "l", "-", "g", "r", "e", "e", "n">>,
    <<"v", "i", "d", "e", "o", "-", "b", "l", "a", "c", "k", "-", "l", "e",
      "v", "e", "l", "-", "b", "l", "u", "e">>,
    <<"b", "a", "c", "k", "l", "i", "g", "h", "t", "-", "l", "e", "v", "e",
      "l", "-", "b", "l", "u", "e">>,
    <<"g", "a", "m", "m", "a">>,
    <<"l", "u", "t", "-", "s", "i", "z", "e">>,
    <<"s", "i", "n", "g", "l", "e", "-", "p", "o", "i", "n", "t", "-", "l",
      "u", "t", "-", "o", "p", "e", "r", "a", "t", "i", "o", "n">>,
    <<"b", "l", "o", "c", "k", "-", "l", "u", "t", "-", "o", "p", "e", "r",
      "a", "t", "i", "o", "n">>,
    <<"r", "e", "m", "o", "t", "e", "-", "p", "r", "o", "c", "e", "d", "u",
      "r", "e", "-", "c", "a", "l", "l">>,
    <<"d", "i", "s", "p", "l", "a", "y", "-", "i", "d", "e", "n", "t", "i",
      "f", "i", "c", "a", "t", "i", "o", "n", "-", "o", "p", "e", "r", "a",
      "t", "i", "o", "n">>,
    <<"a", "d", "j", "u", "s", "t", "-", "f", "o", "c", "a", "l", "-", "p",
      "l", "a", "n", "e">>,
    <<"a", "d", "j", "u", "s", "t", "-", "z", "o", "o", "m">>,
    <<"t", "r", "a", "p", "e", "z", "o", "i", "d">>,
    <<"k", "e", "y", "s", "t", "o", "n", "e">>,
    <<"h", "o", "r", "i", "z", "o", "n", "t", "a", "l", "-", "m", "i", "r",
      "r", "o", "r", "-", "f", "l", "i", "p">>,
    <<"v", "e", "r", "t", "i", "c", "a", "l", "-", "m", "i", "r", "r", "o",
      "r", "-", "f", "l", "i", "p">>,
    <<"d", "i", "s", "p", "l", "a", "y", "-", "s", "c", "a", "l", "i", "n",
      "g">>,
    <<"s", "h", "a", "r", "p", "n", "e", "s", "s">>,
    <<"v", "e", "l", "o", "c", "i", "t", "y", "-", "s", "c", "a", "n", "-",
      "m", "o", "d", "u", "l", "a", "t", "i", "o", "n">>,
    <<"c", "o", "l", "o", "r", "-", "s", "a", "t", "u", "r", "a", "t", "i",
      "o", "n">>,
    <<"t", "v", "-", "c", "h", "a", "n", "n", "e", "l", "-", "u", "p", "-",
      "d", "o", "w", "n">>,
    <<"t", "v", "-", "s", "h", "a", "r", "p", "n", "e", "s", "s">>,
    <<"a", "u", "d", "i", "o", "-", "m", "u", "t", "e", "-", "s", "c", "r",
      "e", "e", "n", "-", "b", "l", "a", "n", "k">>,
    <<"t", "v", "-", "c", "o", "n", "t", "r", "a", "s", "t">>,
    <<"a", "u", "d", "i", "o", "-", "t", "r", "e", "b", "l", "e">>,
    <<"h", "u", "e">>,
    <<"a", "u", "d", "i", "o", "-", "b", "a", "s", "s">>,
    <<"t", "v", "-", "b", "l", "a", "c", "k", "-", "l", "e", "v", "e", "l",
      "-", "l", "u", "m", "i", "n", "e", "s", "e", "n", "c", "e">>,
    <<"a", "u", "d", "i", "o", "-", "b", "a", "l", "a", "n", "c", "e", "-",
      "l", "-", "r">>,
    <<"a", "u", "d", "i", "o", "-", "p", "r", "o", "c", "e", "s", "s", "o",
      "r", "-", "m", "o", "d", "e">>,
    <<"w", "i", "n", "d", "o", "w", "-", "p", "o", "s", "i", "t", "i", "o",
      "n", "-", "t", "l", "_", "x">>,
    <<"w", "i", "n", "d", "o", "w", "-", "p", "o", "s", "i", "t", "i", "o",
      "n", "-", "t", "l", "_", "y">>,
    <<"w", "i", "n", "d", "o", "w", "-", "p", "o", "s", "i", "t", "i", "o",
      "n", "-", "b", "r", "_", "x">>,
    <<"w", "i", "n", "d", "o", "w", "-", "p", "o", "s", "i", "t", "i", "o",
      "n", "-", "b", "r", "_", "y">>,
    <<"w", "i", "n", "d", "o", "w", "-", "c", "o", "n", "t", "r", "o", "l",
      "-", "o", "n", "-", "o", "f", "f">>,
    <<"w", "i", "n", "d", "o", "w", "-", "b", "a", "c", "k", "g", "r", "o",
      "u", "n", "d">>,
    <<"6", "-", "a", "x", "i", "s", "-", "h", "u", "e", "-", "c", "o", "n",
      "t", "r", "o", "l", "-", "r", "e", "d">>,
    <<"6", "-", "a", "x", "i", "s", "-", "h", "u", "e", "-", "c", "o", "n",
      "t", "r", "o", "l", "-", "y", "e", "l", "l", "o", "w">>,
    <<"6", "-", "a", "x", "i", "s", "-", "h", "u", "e", "-", "c", "o", "n",
      "t", "r", "o", "l", "-", "g", "r", "e", "e", "n">>,
    <<"6", "-", "a", "x", "i", "s", "-", "h", "u", "e", "-", "c", "o", "n",
      "t", "r", "o", "l", "-", "c", "y", "a", "n">>,
    <<"6", "-", "a", "x", "i", "s", "-", "h", "u", "e", "-", "c", "o", "n",
      "t", "r", "o", "l", "-", "b", "l", "u", "e">>,
    <<"6", "-", "a", "x", "i", "s", "-", "h", "u", "e", "-", "c", "o", "n",
      "t", "r", "o", "l", "-", "m", "a", "g", "e", "n", "t", "a">>,
    <<"a", "u", "t", "o", "-", "s", "e", "t", "u", "p", "-", "o", "n", "-",
      "o", "f", "f">>,
    <<"w", "i", "n", "d", "o", "w", "-", "m", "a", "s", "k", "-", "c", "o",
      "n", "t", "r", "o", "l">>,
    <<"c", "h", "a", "n", "g", "e", "-", "t", "h", "e", "-", "s", "e", "l",
      "e", "c", "t", "e", "d", "-", "w", "i", "n", "d", "o", "w">>,
    <<"s", "c", "r", "e", "e", "n", "-", "o", "r", "i", "e", "n", "t", "a",
      "t", "i", "o", "n">>,
    <<"h", "o", "r", "i", "z", "o", "n", "t", "a", "l", "-", "f", "r", "e",
      "q", "u", "e", "n", "c", "y">>,
    <<"v", "e", "r", "t", "i", "c", "a", "l", "-", "f", "r", "e", "q", "u",
      "e", "n", "c", "y">>,
    <<"s", "e", "t", "t", "i", "n", "g", "s">>,
    <<"f", "l", "a", "t", "-", "p", "a", "n", "e", "l", "-", "s", "u", "b",
      "-", "p", "i", "x", "e", "l", "-", "l", "a", "y", "o", "u", "t">>,
    <<"s", "o", "u", "r", "c", "e", "-", "t", "i", "m", "i", "n", "g", "-",
      "m", "o", "d", "e">>,
    <<"d", "i", "s", "p", "l", "a", "y", "-", "t", "e", "c", "h", "n", "o",
      "l", "o", "g", "y", "-", "t", "y", "p", "e">>,
    <<"m", "o", "n", "i", "t", "o", "r", "-", "s", "t", "a", "t", "u", "s">>,
    <<"p", "a", "c", "k", "e", "t", "-", "c", "o", "u", "n", "t">>,
    <<"m", "o", "n", "i", "t", "o", "r", "-", "x", "-", "o", "r", "i", "g",
      "i", "n">>,
    <<"m", "o", "n", "i", "t", "o", "r", "-", "y", "-", "o", "r", "i", "g",
      "i", "n">>,
    <<"h", "e", "a", "d", "e", "r", "-", "e", "r", "r", "o", "r", "-", "c",
      "o", "u", "n", "t">>,
    <<"b", "o", "d", "y", "-", "c", "r", "c", "-", "e", "r", "r", "o", "r",
      "-", "c", "o", "u", "n", "t">>,
    <<"c", "l", "i", "e", "n", "t", "-", "i", "d">>,
    <<"l", "i", "n", "k", "-", "c", "o", "n", "t", "r", "o", "l">>,
    <<"d", "i", "s", "p", "l", "a", "y", "-", "u", "s", "a", "g", "e", "-",
      "t", "i", "m", "e">>,
    <<"d", "i", "s", "p", "l", "a", "y", "-", "d", "e", "s", "c", "r", "i",
      "p", "t", "o", "r", "-", "l", "e", "n", "g", "t", "h">>,
    <<"t", "r", "a", "n", "s", "m", "i", "t", "-", "d", "i", "s", "p", "l",
      "a", "y", "-", "d", "e", "s", "c", "r", "i", "p", "t", "o", "r">>,
    <<"e", "n", "a", "b", "l", "e", "-", "d", "i", "s", "p", "l", "a", "y",
      "-", "o", "f", "-", "'", "d", "i", "s", "p", "l", "a", "y", "-", "d",
      "e", "s", "c", "r", "i", "p", "t", "o", "r", "'">>,
    <<"a", "p", "p", "l", "i", "c", "a", "t", "i", "o", "n", "-", "e", "n",
      "a", "b", "l", "e", "-", "k", "e", "y">>,
    <<"d", "i", "s", "p", "l", "a", "y", "-", "c", "o", "n", "t", "r", "o",
      "l", "l", "e", "r", "-", "t", "y", "p", "e">>,
    <<"d", "i", "s", "p", "l", "a", "y", "-", "f", "i", "r", "m", "w", "a",
      "r", "e", "-", "l", "e", "v", "e", "l">>,
    <<"o", "s", "d", "-", "b", "u", "t", "t", "o", "n", "-", "c", "o", "n",
      "t", "r", "o", "l">>,
    <<"o", "s", "d", "-", "l", "a", "n", "g", "u", "a", "g", "e">>,
    <<"s", "t", "a", "t", "u", "s", "-", "i", "n", "d", "i", "c", "a", "t",
      "o", "r", "s">>,
    <<"a", "u", "x", "i", "l", "i", "a", "r", "y", "-", "d", "i", "s", "p",
      "l", "a", "y", "-", "s", "i", "z", "e">>,
    <<"a", "u", "x", "i", "l", "i", "a", "r", "y", "-", "d", "i", "s", "p",
      "l", "a", "y", "-", "d", "a", "t", "a">>,
    <<"o", "u", "t", "p", "u", "t", "-", "s", "e", "l", "e", "c", "t">>,
    <<"a", "s", "s", "e", "t", "-", "t", "a", "g">>,
    <<"s", "t", "e", "r", "e", "o", "-", "v", "i", "d", "e", "o", "-", "m",
      "o", "d", "e">>,
    <<"p", "o", "w", "e", "r", "-", "m", "o", "d", "e">>,
    <<"a", "u", "x", "i", "l", "i", "a", "r", "y", "-", "p", "o", "w", "e",
      "r", "-", "o", "u", "t", "p", "u", "t">>,
    <<"s", "c", "a", "n", "-", "m", "o", "d", "e">>,
    <<"i", "m", "a", "g", "e", "-", "m", "o", "d", "e">>,
    <<"d", "i", "s", "p", "l", "a", "y", "-", "m", "o", "d", "e">>,
    <<"s", "c", "r", "a", "t", "c", "h", "-", "p", "a", "d">>,
    <<"v", "c", "p", "-", "v", "e", "r", "s", "i", "o", "n">>}

\* The names of the values of the table.
ValueNames == {
    <<"n", "o", "-", "u", "s", "e", "r", "-", "c", "o", "n", "t", "r", "o",
      "l", "s", "-", "a", "r", "e", "-", "p", "r", "e", "s", "e", "n", "t">>,
    <<"n", "o", "-", "b", "u", "t", "t", "o", "n", "-", "a", "c", "t", "i",
      "v", "e">>,
    <<"b", "u", "t", "t", "o", "n", "-", "1", "-", "a", "c", "t", "i", "v",
      "e">>,
    <<"b", "u", "t", "t", "o", "n", "-", "2", "-", "a", "c", "t", "i", "v",
      "e">>,
    <<"b", "u", "t", "t", "o", "n", "-", "3", "-", "a", "c", "t", "i", "v",
      "e">>,
    <<"b", "u", "t", "t", "o", "n", "-", "4", "-", "a", "c", "t", "i", "v",
      "e">>,
    <<"b", "u", "t", "t", "o", "n", "-", "5", "-", "a", "c", "t", "i", "v",
      "e">>,
    <<"b", "u", "t", "t", "o", "n", "-", "6", "-", "a", "c", "t", "i", "v",
      "e">>,
    <<"b", "u", "t", "t", "o", "n", "-", "7", "-", "a", "c", "t", "i", "v",
      "e">>,
    <<"s", "r", "g", "b">>,
    <<"d", "i", "s", "p", "l", "a", "y", "-", "n", "a", "t", "i", "v", "e">>,
    <<"4", "0", "0", "0", "-", "k">>,
    <<"5", "0", "0", "0", "-", "k">>,
    <<"6", "5", "0", "0", "-", "k">>,
    <<"7", "5", "0", "0", "-", "k">>,
    <<"8", "2", "0", "0", "-", "k">>,
    <<"9", "3", "0", "0", "-", "k">>,
    <<"1", "0", "0", "0", "0", "-", "k">>,
    <<"1", "1", "5", "0", "0", "-", "k">>,
    <<"u", "s", "e", "r", "-", "1">>,
    <<"u", "s", "e", "r", "-", "2">>,
    <<"u", "s", "e", "r", "-", "3">>,
    <<"a", "u", "t", "o", "-", "s", "e", "t", "u", "p", "-", "n", "o", "t",
      "-", "a", "c", "t", "i", "v", "e">>,
    <<"p", "e", "r", "f", "o", "r", "m", "i", "n", "g", "-", "a", "u", "t",
      "o", "-", "s", "e", "t", "u", "p">>,
    <<"e", "n", "a", "b", "l", "e", "-", "c", "o", "n", "t", "i", "n", "u",
      "o", "u", "s", "-", "p", "e", "r", "i", "o", "d", "i", "c", "-", "a",
      "u", "t", "o", "-", "s", "e", "t", "u", "p">>,
    <<"v", "g", "a", "-", "1">>,
    <<"v", "g", "a", "-", "2">>,
    <<"d", "v", "i", "-", "1">>,
    <<"d", "v", "i", "-", "2">>,
    <<"c", "o", "m", "p", "o", "s", "i", "t", "e", "-", "v", "i", "d", "e",
      "o", "-", "1">>,
    <<"c", "o", "m", "p", "o", "s", "i", "t", "e", "-", "v", "i", "d", "e",
      "o", "-", "2">>,
    <<"s", "-", "v", "i", "d", "e", "o", "-", "1">>,
    <<"s", "-", "v", "i", "d", "e", "o", "-", "2">>,
    <<"t", "u", "n", "e", "r", "-", "1">>,
    <<"t", "u", "n", "e", "r", "-", "2">>,
    <<"t", "u", "n", "e", "r", "-", "3">>,
    <<"c", "o", "m", "p", "o", "n", "e", "n", "t", "-", "v", "i", "d", "e",
      "o", "-", "y", "p", "r", "p", "b", "-", "y", "c", "r", "c", "b", "-",
      "1">>,
    <<"c", "o", "m", "p", "o", "n", "e", "n", "t", "-", "v", "i", "d", "e",
      "o", "-", "y", "p", "r", "p", "b", "-", "y", "c", "r", "c", "b", "-",
      "2">>,
    <<"c", "o", "m", "p", "o", "n", "e", "n", "t", "-", "v", "i", "d", "e",
      "o", "-", "y", "p", "r", "p", "b", "-", "y", "c", "r", "c", "b", "-",
      "3">>,
    <<"d", "i", "s", "p", "l", "a", "y", "p", "o", "r", "t", "-", "1">>,
    <<"d", "i", "s", "p", "l", "a", "y", "p", "o", "r", "t", "-", "2">>,
    <<"h", "d", "m", "i", "-", "1">>,
    <<"h", "d", "m", "i", "-", "2">>,
    <<"f", "r", "o", "n", "t", "-", "l", "-", "r">>,
    <<"s", "i", "d", "e", "-", "l", "-", "r">>,
    <<"r", "e", "a", "r", "-", "l", "-", "r">>,
    <<"c", "e", "n", "t", "e", "r", "-", "s", "u", "b", "w", "o", "o", "f",
      "e", "r">>,
    <<"d", "i", "s", "a", "b", "l", "e", "d">>,
    <<"e", "n", "a", "b", "l", "e", "d">>,
    <<"n", "o", "r", "m", "a", "l", "-", "m", "o", "d", "e">>,
    <<"m", "i", "r", "r", "o", "r", "e", "d", "-", "h", "o", "r", "i", "z",
      "o", "n", "t", "a", "l", "l", "y", "-", "m", "o", "d", "e">>,
    <<"m", "i", "r", "r", "o", "r", "e", "d", "-", "v", "e", "r", "t", "i",
      "c", "a", "l", "l", "y", "-", "m", "o", "d", "e">>,
    <<"n", "o", "-", "s", "c", "a", "l", "i", "n", "g">>,
    <<"m", "a", "x", "-", "i", "m", "a", "g", "e", "-", "n", "o", "-", "a",
      "s", "p", "e", "c", "t", "-", "r", "a", "t", "i", "o", "n", "-", "d",
      "i", "s", "t", "o", "r", "t", "i", "o", "n">>,
    <<"m", "a", "x", "-", "v", "e", "r", "t", "i", "c", "a", "l", "-", "i",
      "m", "a", "g", "e", "-", "n", "o", "-", "a", "s", "p", "e", "c", "t",
      "-", "r", "a", "t", "i", "o", "-", "d", "i", "s", "t", "o", "r", "t",
      "i", "o", "n">>,
    <<"m", "a", "x", "-", "h", "o", "r", "i", "z", "o", "n", "t", "a", "l",
      "-", "i", "m", "a", "g", "e", "-", "n", "o", "-", "a", "s", "p", "e",
      "c", "t", "-", "r", "a", "t", "i", "o", "-", "d", "i", "s", "t", "o",
      "r", "t", "i", "o", "n">>,
    <<"m", "a", "x", "-", "v", "e", "r", "t", "i", "c", "a", "l", "-", "i",
      "m", "a", "g", "e", "-", "w", "i", "t", "h", "-", "a", "s", "p", "e",
      "c", "t", "-", "r", "a", "t", "i", "o", "-", "d", "i", "s", "t", "o",
      "r", "t", "i", "o", "n">>,
    <<"m", "a", "x", "-", "h", "o", "r", "i", "z", "o", "n", "t", "a", "l",
      "-", "i", "m", "a", "g", "e", "-", "w", "i", "t", "h", "-", "a", "s",
      "p", "e", "c", "t", "-", "r", "a", "t", "i", "o", "-", "d", "i", "s",
      "t", "o", "r", "t", "i", "o", "n">>,
    <<"l", "i", "n", "e", "a", "r", "-", "e", "x", "p", "a", "n", "s", "i",
      "o", "n", "-", "c", "o", "m", "p", "r", "e", "s", "s", "i", "o", "n",
      "-", "o", "n", "-", "h", "o", "r", "i", "z", "o", "n", "t", "a", "l",
      "-", "a", "x", "i", "s">>,
    <<"l", "i", "n", "e", "a", "r", "-", "e", "x", "p", "a", "n", "s", "i",
      "o", "n", "-", "c", "o", "m", "p", "r", "e", "s", "s", "i", "o", "n",
      "-", "o", "n", "-", "h", "-", "a", "n", "d", "-", "v", "-", "a", "x",
      "e", "s">>,
    <<"s", "q", "u", "e", "e", "z", "e", "-", "m", "o", "d", "e">>,
    <<"n", "o", "n", "-", "l", "i", "n", "e", "a", "r", "-", "e", "x", "p",
      "a", "n", "s", "i", "o", "n">>,
    <<"f", "i", "l", "t", "e", "r", "-", "f", "u", "n", "c", "t", "i", "o",
      "n", "-", "1">>,
    <<"f", "i", "l", "t", "e", "r", "-", "f", "u", "n", "c", "t", "i", "o",
      "n", "-", "2">>,
    <<"f", "i", "l", "t", "e", "r", "-", "f", "u", "n", "c", "t", "i", "o",
      "n", "-", "3">>,
    <<"f", "i", "l", "t", "e", "r", "-", "f", "u", "n", "c", "t", "i", "o",
      "n", "-", "4">>,
    <<"i", "n", "c", "r", "e", "m", "e", "n", "t", "-", "c", "h", "a", "n",
      "n", "e", "l">>,
    <<"d", "e", "c", "r", "e", "m", "e", "n", "t", "-", "c", "h", "a", "n",
      "n", "e", "l">>,
    <<"m", "u", "t", "e", "-", "t", "h", "e", "-", "a", "u", "d", "i", "o">>,
    <<"u", "n", "m", "u", "t", "e", "-", "t", "h", "e", "-", "a", "u", "d",
      "i", "o">>,
    <<"s", "p", "e", "a", "k", "e", "r", "-", "o", "f", "f", "-", "a", "u",
      "d", "i", "o", "-", "n", "o", "t", "-", "s", "u", "p", "p", "o", "r",
      "t", "e", "d">>,
    <<"m", "o", "n", "o">>,
    <<"s", "t", "e", "r", "e", "o">>,
    <<"s", "t", "e", "r", "e", "o", "-", "e", "x", "p", "a", "n", "d", "e",
      "d">>,
    <<"s", "r", "s", "-", "2", ".", "0">>,
    <<"s", "r", "s", "-", "2", ".", "1">>,
    <<"s", "r", "s", "-", "3", ".", "1">>,
    <<"s", "r", "s", "-", "4", ".", "1">>,
    <<"s", "r", "s", "-", "5", ".", "1">>,
    <<"s", "r", "s", "-", "6", ".", "1">>,
    <<"s", "r", "s", "-", "7", ".", "1">>,
    <<"d", "o", "l", "b", "y", "-", "2", ".", "0">>,
    <<"d", "o", "l", "b", "y", "-", "2", ".", "1">>,
    <<"d", "o", "l", "b", "y", "-", "3", ".", "1">>,
    <<"d", "o", "l", "b", "y", "-", "4", ".", "1">>,
    <<"d", "o", "l", "b", "y", "-", "5", ".", "1">>,
    <<"d", "o", "l", "b", "y", "-", "6", ".", "1">>,
    <<"d", "o", "l", "b", "y", "-", "7", ".", "1">>,
    <<"t", "h", "x", "-", "2", ".", "0">>,
    <<"t", "h", "x", "-", "2", ".", "1">>,
    <<"t", "h", "x", "-", "3", ".", "1">>,
    <<"t", "h", "x", "-", "4", ".", "1">>,
    <<"t", "h", "x", "-", "5", ".", "1">>,
    <<"t", "h", "x", "-", "6", ".", "1">>,
    <<"t", "h", "x", "-", "7", ".", "1">>,
    <<"n", "o", "-", "e", "f", "f", "e", "c", "t">>,
    <<"o", "f", "f">>,
    <<"o", "n">>,
    <<"f", "u", "l", "l", "-", "d", "i", "s", "p", "l", "a", "y", "-", "i",
      "m", "a", "g", "e", "-", "a", "r", "e", "a", "-", "s", "e", "l", "e",
      "c", "t", "e", "d", "-", "e", "x", "c", "e", "p", "t", "-", "a", "c",
      "t", "i", "v", "e", "-", "w", "i", "n", "d", "o", "w", "s">>,
    <<"w", "i", "n", "d", "o", "w", "-", "1", "-", "s", "e", "l", "e", "c",
      "t", "e", "d">>,
    <<"w", "i", "n", "d", "o", "w", "-", "2", "-", "s", "e", "l", "e", "c",
      "t", "e", "d">>,
    <<"w", "i", "n", "d", "o", "w", "-", "3", "-", "s", "e", "l", "e", "c",
      "t", "e", "d">>,
    <<"w", "i", "n", "d", "o", "w", "-", "4", "-", "s", "e", "l", "e", "c",
      "t", "e", "d">>,
    <<"w", "i", "n", "d", "o", "w", "-", "5", "-", "s", "e", "l", "e", "c",
      "t", "e", "d">>,
    <<"w", "i", "n", "d", "o", "w", "-", "6", "-", "s", "e", "l", "e", "c",
      "t", "e", "d">>,
    <<"w", "i", "n", "d", "o", "w", "-", "7", "-", "s", "e", "l", "e", "c",
      "t", "e", "d">>,
    <<"0", "-", "d", "e", "g", "r", "e", "e", "s">>,
    <<"9", "0", "-", "d", "e", "g", "r", "e", "e", "s">>,
    <<"1", "8", "0", "-", "d", "e", "g", "r", "e", "e", "s">>,
    <<"2", "7", "0", "-", "d", "e", "g", "r", "e", "e", "s">>,
    <<"d", "i", "s", "p", "l", "a", "y", "-", "c", "a", "n", "n", "o", "t",
      "-", "s", "u", "p", "p", "l", "y", "-", "o", "r", "i", "e", "n", "t",
      "a", "t", "i", "o", "n">>,
    <<"s", "t", "o", "r", "e", "-", "c", "u", "r", "r", "e", "n", "t", "-",
      "s", "e", "t", "t", "i", "n", "g", "s", "-", "i", "n", "-", "t", "h",
      "e", "-", "m", "o", "n", "i", "t", "o", "r">>,
    <<"r", "e", "s", "t", "o", "r", "e", "-", "f", "a", "c", "t", "o", "r",
      "y", "-", "d", "e", "f", "a", "u", "l", "t", "s", "-", "f", "o", "r",
      "-", "c", "u", "r", "r", "e", "n", "t", "-", "m", "o", "d", "e">>,
    <<"s", "u", "b", "-", "p", "i", "x", "e", "l", "-", "l", "a", "y", "o",
      "u", "t", "-", "n", "o", "t", "-", "d", "e", "f", "i", "n", "e", "d">>,
    <<"r", "e", "d", "-", "g", "r", "e", "e", "n", "-", "b", "l", "u", "e",
      "-", "v", "e", "r", "t", "i", "c", "a", "l", "-", "s", "t", "r", "i",
      "p", "e">>,
    <<"r", "e", "d", "-", "g", "r", "e", "e", "n", "-", "b", "l", "u", "e",
      "-", "h", "o", "r", "i", "z", "o", "n", "t", "a", "l", "-", "s", "t",
      "r", "i", "p", "e">>,
    <<"b", "l", "u", "e", "-", "g", "r", "e", "e", "n", "-", "r", "e", "d",
      "-", "v", "e", "r", "t", "i", "c", "a", "l", "-", "s", "t", "r", "i",
      "p", "e">>,
    <<"b", "l", "u", "e", "-", "g", "r", "e", "e", "n", "-", "r", "e", "d",
      "-", "h", "o", "r", "i", "z", "o", "n", "t", "a", "l", "-", "s", "t",
      "r", "i", "p", "e">>,
    <<"q", "u", "a", "d", "-", "p", "i", "x", "e", "l", "-", "r", "e", "d",
      "-", "a", "t", "-", "t", "o", "p", "-", "l", "e", "f", "t">>,
    <<"q", "u", "a", "d", "-", "p", "i", "x", "e", "l", "-", "r", "e", "d",
      "-", "a", "t", "-", "b", "o", "t", "t", "o", "m", "-", "l", "e", "f",
      "t">>,
    <<"d", "e", "l", "t", "a", "-", "t", "r", "i", "a", "d">>,
    <<"m", "o", "s", "a", "i", "c">>,
    <<"c", "r", "t", "-", "s", "h", "a", "d", "o", "w", "-", "m", "a", "s",
      "k">>,
    <<"c", "r", "t", "-", "a", "p", "e", "r", "t", "u", "r", "e", "-", "g",
      "r", "i", "l", "l">>,
    <<"l", "c", "d", "-", "a", "c", "t", "i", "v", "e", "-", "m", "a", "t",
      "r", "i", "x">>,
    <<"l", "c", "o", "s">>,
    <<"p", "l", "a", "s", "m", "a">>,
    <<"o", "l", "e", "d">>,
    <<"e", "l">>,
    <<"m", "e", "m">>,
    <<"c", "o", "n", "e", "x", "a", "n", "t">>,
    <<"g", "e", "n", "e", "s", "i", "s">>,
    <<"m", "a", "c", "r", "o", "n", "i", "x">>,
    <<"i", "d", "t">>,
    <<"m", "s", "t", "a", "r">>,
    <<"m", "y", "s", "o", "n">>,
    <<"p", "h", "i", "l", "l", "i", "p", "s">>,
    <<"p", "i", "x", "e", "l", "w", "o", "r", "k", "s">>,
    <<"r", "e", "a", "l", "t", "e", "k">>,
    <<"s", "a", "g", "e">>,
    <<"s", "i", "l", "i", "c", "o", "n", "-", "i", "m", "a", "g", "e">>,
    <<"s", "m", "a", "r", "t", "a", "s", "i", "c">>,
    <<"s", "t", "m", "i", "c", "r", "o", "e", "l", "e", "c", "t", "r", "o",
      "n", "i", "c", "s">>,
    <<"t", "o", "p", "r", "o">>,
    <<"t", "r", "u", "m", "p", "i", "o", "n">>,
    <<"w", "e", "l", "l", "t", "r", "e", "n", "d">>,
    <<"s", "a", "m", "s", "u", "n", "g">>,
    <<"n", "o", "v", "a", "t", "e", "k">>,
    <<"s", "t", "k">>,
    <<"s", "i", "l", "i", "c", "o", "n", "-", "o", "p", "t", "i", "c", "s">>,
    <<"t", "e", "x", "a", "s", "-", "i", "n", "s", "t", "r", "u", "m", "e",
      "n", "t", "s">>,
    <<"a", "n", "a", "l", "o", "g", "i", "x">>,
    <<"q", "u", "a", "n", "t", "u", "m", "-", "d", "a", "t", "a">>,
    <<"n", "x", "p", "-", "s", "e", "m", "i", "c", "o", "n", "d", "u", "c",
      "t", "o", "r", "s">>,
    <<"c", "h", "r", "o", "n", "t", "e", "l">>,
    <<"p", "a", "r", "a", "d", "e", "-", "t", "e", "c", "h", "n", "o", "l",
      "o", "g", "i", "e", "s">>,
    <<"t", "h", "i", "n", "e", "-", "e", "l", "e", "c", "t", "r", "o", "n",
      "i", "c", "s">>,
    <<"t", "r", "i", "d", "e", "n", "t">>,
    <<"m", "i", "c", "r", "o", "s">>,
    <<"n", "o", "t", "-", "d", "e", "f", "i", "n", "e", "d", "-", "a", "-",
      "m", "a", "n", "u", "f", "a", "c", "t", "u", "r", "e", "r", "-", "d",
      "e", "s", "i", "g", "n", "e", "d", "-", "c", "o", "n", "t", "r", "o",
      "l", "l", "e", "r">>,
    <<"o", "s", "d", "-", "d", "i", "s", "a", "b", "l", "e", "d">>,
    <<"o", "s", "d", "-", "e", "n", "a", "b", "l", "e", "d">>,
    <<"d", "i", "s", "p", "l", "a", "y", "-", "c", "a", "n", "n", "o", "t",
      "-", "s", "u", "p", "p", "l", "y", "-", "t", "h", "i", "s", "-", "i",
      "n", "f", "o", "r", "m", "a", "t", "i", "o", "n">>,
    <<"r", "e", "s", "e", "r", "v", "e", "d", "-", "v", "a", "l", "u", "e",
      "-", "m", "u", "s", "t", "-", "b", "e", "-", "i", "g", "n", "o", "r",
      "e", "d">>,
    <<"c", "h", "i", "n", "e", "s", "e", "-", "t", "r", "a", "d", "i", "t",
      "i", "o", "n", "a", "l", "-", "h", "a", "n", "t", "a", "i">>,
    <<"e", "n", "g", "l", "i", "s", "h">>,
    <<"f", "r", "e", "n", "c", "h">>,
    <<"g", "e", "r", "m", "a", "n">>,
    <<"i", "t", "a", "l", "i", "a", "n">>,
    <<"j", "a", "p", "a", "n", "e", "s", "e">>,
    <<"k", "o", "r", "e", "a", "n">>,
    <<"p", "o", "r", "t", "u", "g", "u", "e", "s", "e", "-", "p", "o", "r",
      "t", "u", "g", "a", "l">>,
    <<"r", "u", "s", "s", "i", "a", "n">>,
    <<"s", "p", "a", "n", "i", "s", "h">>,
    <<"s", "w", "e", "d", "i", "s", "h">>,
    <<"t", "u", "r", "k", "i", "s", "h">>,
    <<"c", "h", "i", "n", "e", "s", "e", "-", "s", "i", "m", "p", "l", "i",
      "f", "i", "e", "d", "-", "k", "a", "n", "t", "a", "i">>,
    <<"p", "o", "r", "t", "u", "g", "u", "e", "s", "e", "-", "b", "r", "a",
      "z", "i", "l">>,
    <<"a", "r", "a", "b", "i", "c">>,
    <<"b", "u", "l", "g", "a", "r", "i", "a", "n">>,
    <<"c", "r", "o", "a", "t", "i", "a", "n">>,
    <<"c", "z", "e", "c", "h">>,
    <<"d", "a", "n", "i", "s", "h">>,
    <<"d", "u", "t", "c", "h">>,
    <<"e", "s", "t", "o", "n", "i", "a", "n">>,
    <<"f", "i", "n", "n", "i", "s", "h">>,
    <<"g", "r", "e", "e", "k">>,
    <<"h", "e", "b", "r", "e", "w">>,
    <<"h", "i", "n", "d", "i">>,
    <<"h", "u", "n", "g", "a", "r", "i", "a", "n">>,
    <<"l", "a", "t", "v", "i", "a", "n">>,
    <<"l", "i", "t", "h", "u", "a", "n", "i", "a", "n">>,
    <<"n", "o", "r", "w", "e", "g", "i", "a", "n">>,
    <<"p", "o", "l", "i", "s", "h">>,
    <<"r", "o", "m", "a", "n", "i", "a", "n">>,
    <<"s", "e", "r", "b", "i", "a", "n">>,
    <<"s", "l", "o", "v", "a", "k">>,
    <<"s", "l", "o", "v", "e", "n", "i", "a", "n">>,
    <<"t", "h", "a", "i">>,
    <<"u", "k", "r", "a", "n", "i", "a", "n">>,
    <<"v", "i", "e", "t", "n", "a", "m", "e", "s", "e">>,
    <<"a", "n", "a", "l", "o", "g", "-", "v", "i", "d", "e", "o", "-", "r",
      "-", "g", "-", "b", "-", "1">>,
    <<"a", "n", "a", "l", "o", "g", "-", "v", "i", "d", "e", "o", "-", "r",
      "-", "g", "-", "b", "-", "2">>,
    <<"d", "i", "g", "i", "t", "a", "l", "-", "v", "i", "d", "e", "o", "-",
      "t", "d", "m", "s", "-", "1">>,
    <<"d", "i", "g", "i", "t", "a", "l", "-", "v", "i", "d", "e", "o", "-",
      "t", "d", "m", "s", "-", "2", "2">>,
    <<"d", "p", "m", "-", "o", "n", "-", "d", "p", "m", "s", "-", "o", "f",
      "f">>,
    <<"d", "p", "m", "-", "o", "f", "f", "-", "d", "p", "m", "s", "-", "s",
      "t", "a", "n", "d", "b", "y">>,
    <<"d", "p", "m", "-", "o", "f", "f", "-", "d", "p", "m", "s", "-", "s",
      "u", "s", "p", "e", "n", "d">>,
    <<"d", "p", "m", "-", "o", "f", "f", "-", "d", "p", "m", "s", "-", "o",
      "f", "f">>,
    <<"w", "r", "i", "t", "e", "-", "o", "n", "l", "y", "-", "v", "a", "l",
      "u", "e", "-", "t", "o", "-", "t", "u", "r", "n", "-", "o", "f", "f",
      "-", "d", "i", "s", "p", "l", "a", "y">>,
    <<"d", "i", "s", "a", "b", "l", "e", "-", "a", "u", "x", "i", "l", "i",
      "a", "r", "y", "-", "p", "o", "w", "e", "r">>,
    <<"e", "n", "a", "b", "l", "e", "-", "a", "u", "x", "i", "l", "i", "a",
      "r", "y", "-", "p", "o", "w", "e", "r">>,
    <<"n", "o", "r", "m", "a", "l", "-", "o", "p", "e", "r", "a", "t", "i",
      "o", "n">>,
    <<"u", "n", "d", "e", "r", "s", "c", "a", "n">>,
    <<"o", "v", "e", "r", "s", "c", "a", "n">>,
    <<"w", "i", "d", "e", "s", "c", "r", "e", "e", "n">>,
    <<"f", "u", "l", "l", "-", "m", "o", "d", "e">>,
    <<"z", "o", "o", "m", "-", "m", "o", "d", "e">>,
    <<"v", "a", "r", "i", "a", "b", "l", "e">>,
    <<"s", "t", "a", "n", "d", "a", "r", "d", "-", "d", "e", "f", "a", "u",
      "l", "t", "-", "m", "o", "d", "e">>,
    <<"p", "r", "o", "d", "u", "c", "t", "i", "v", "i", "t", "y">>,
    <<"m", "i", "x", "e", "d">>,
    <<"m", "o", "v", "i", "e">>,
    <<"u", "s", "e", "r", "-", "d", "e", "f", "i", "n", "e", "d">>,
    <<"g", "a", "m", "e", "s">>,
    <<"s", "p", "o", "r", "t", "s">>,
    <<"p", "r", "o", "f", "e", "s", "s", "i", "o", "n", "a", "l", "-", "a",
      "l", "l", "-", "s", "i", "g", "n", "a", "l", "-", "p", "r", "o", "c",
      "e", "s", "s", "i", "n", "g", "-", "d", "i", "s", "a", "b", "l", "e",
      "d">>,
    <<"s", "t", "a", "n", "d", "a", "r", "d", "-", "d", "e", "f", "a", "u",
      "l", "t", "-", "m", "o", "d", "e", "-", "w", "i", "t", "h", "-", "i",
      "n", "t", "e", "r", "m", "e", "d", "i", "a", "t", "e", "-", "p", "o",
      "w", "e", "r", "-", "c", "o", "n", "s", "u", "m", "p", "t", "i", "o",
      "n">>,
    <<"s", "t", "a", "n", "d", "a", "r", "d", "-", "d", "e", "f", "a", "u",
      "l", "t", "-", "m", "o", "d", "e", "-", "w", "i", "t", "h", "-", "l",
      "o", "w", "-", "p", "o", "w", "e", "r", "-", "c", "o", "n", "s", "u",
      "m", "p", "t", "i", "o", "n">>,
    <<"d", "e", "m", "o", "n", "s", "t", "r", "a", "t", "i", "o", "n">>,
    <<"d", "y", "n", "a", "m", "i", "c", "-", "c", "o", "n", "t", "r", "a",
      "s", "t">>}

HexDigits ==
    <<"0", "1", "2", "3", "4", "5", "6", "7", "8", "9",
      "A", "B", "C", "D", "E", "F">>

RECURSIVE Dec(_)
\* The decimal numeral of n.
Dec(n) ==
    IF n < 10 THEN <<HexDigits[n + 1]>>
    ELSE Dec(n \div 10) \o <<HexDigits[(n % 10) + 1]>>

\* The hexadecimal numeral of a byte, as 0x10 or 0x0A.
Hex(n) == <<"0", "x", HexDigits[(n \div 16) + 1], HexDigits[(n % 16) + 1]>>

\* The ways a caller names the control of an item: its code, a numeral of
\* the code, its name.
ControlForms(item) ==
    {PyInt(item.code), PyStr(Dec(item.code)), PyStr(Hex(item.code))}
    \cup {PyStr(n) : n \in {m \in ControlNames : Join(m) = item.name}}

\* The ways a caller names the value of an entry.
EntryForms(e) ==
    {PyInt(e[1]), PyStr(Dec(e[1])), PyStr(Hex(e[1]))}
    \cup {PyStr(n) : n \in {m \in ValueNames : Join(m) = e[2]}}

\* Tokens that are no value of any control.
UnknownValues ==
    {PyInt(200), PyStr(<<"2", "0", "0">>), PyStr(<<"n", "o", "p", "e">>),
     PyStr(<<"b", "r", "i", "g", "h", "t", "n", "e", "s", "s">>)}

\* For every item of the table: each form of the control with no value,
\* and its code and its name with each form of each of its values and with
\* the unknown values.
ItemInputs(item) ==
    (ControlForms(item) \X {PyNone})
    \cup ((ControlForms(item) \ {PyStr(Dec(item.code)), PyStr(Hex(item.code))})
          \X (UnknownValues
              \cup UNION {EntryForms(item.known_values[j]) :
                             j \in DOMAIN item.known_values}))

\* Tokens that name no control.
UnknownControls ==
    {PyInt(0), PyInt(7), PyInt(255), PyInt(256), PyStr(<<"0">>),
     PyStr(<<"0", "x", "F", "F">>), PyStr(<<"n", "o", "p", "e">>),
     PyStr(<<"s", "r", "g", "b">>), PyStr(<<>>)}

TableInputs(codes) ==
    UNION {ItemInputs(codes[i]) : i \in DOMAIN codes}
    \cup (UnknownControls
          \X ({PyNone, PyInt(1), PyStr(<<"s", "r", "g", "b">>)} \cup UnknownValues))

InitRegistry ==
    /\ InitIdle
    /\ budget = 0
    /\ raw_caps = <<>>
    /\ argv = <<>>
    /\ argi = 0
    /\ run = "none"
    /\ device = "open"
    /\ display = "paged"
    /\ cs_in = <<>>
    /\ cs_out = <<>>
    /\ call_args \in TableInputs(_codes)

\* VCPCode(vcp, value).get_vcp_code()
CallGetVcpCode ==
    /\ ~WasCalled("get_vcp_code")
    /\ call_ret' = Append(call_ret, Called("get_vcp_code",
                                            get_vcp_code(call_args[1])))
    /\ UNCHANGED <<entry, op, pc, control, value, message, sleep, fn, attempt,
                   saved_exception, data, result, outcome, log, tries, rx,
                   budget, faults, session_vars, caps_vars, cs_vars, call_args>>

\* VCPCode(vcp, value).get_vcp_name()
CallGetVcpName ==
    /\ WasCalled("get_vcp_code")
    /\ ~WasCalled("get_vcp_name")
    /\ call_ret' = Append(call_ret, Called("get_vcp_name",
                                            get_vcp_name(call_args[1])))
    /\ UNCHANGED <<entry, op, pc, control, value, message, sleep, fn, attempt,
                   saved_exception, data, result, outcome, log, tries, rx,
                   budget, faults, session_vars, caps_vars, cs_vars, call_args>>

\* VCPCode(vcp, value).get_value_code()
CallGetValueCode ==
    /\ WasCalled("get_vcp_name")
    /\ ~WasCalled("get_value_code")
    /\ call_ret' = Append(call_ret, Called("get_value_code",
                       get_value_code(call_args[1], call_args[2])))
    /\ UNCHANGED <<entry, op, pc, control, value, message, sleep, fn, attempt,
                   saved_exception, data, result, outcome, log, tries, rx,
                   budget, faults, session_vars, caps_vars, cs_vars, call_args>>

\* VCPCode(vcp, value).get_value_name()
CallGetValueName ==
    /\ WasCalled("get_value_code")
    /\ ~WasCalled("get_value_name")
    /\ call_ret' = Append(call_ret, Called("get_value_name",
                       get_value_name(call_args[1], call_args[2])))
    /\ UNCHANGED <<entry, op, pc, control, value, message, sleep, fn, attempt,
                   saved_exception, data, result, outcome, log, tries, rx,
                   budget, faults, session_vars, caps_vars, cs_vars, call_args>>

NextRegistry ==
    \/ CallGetVcpCode
    \/ CallGetVcpName
    \/ CallGetValueCode
    \/ CallGetValueName

SpecRegistry == InitRegistry /\ [][NextRegistry]_vars

----------------------------------------------------------------------------
(* Properties *)

\* The fn() calls _retry has made for function f, in order.
TriesOf(f) == SelectSeq(tries, LAMBDA t : t.fn = f)

\* The logged calls made from the given source line, in order.
CallsAt(line) == SelectSeq(log, LAMBDA e : e.line = line)

\* The line of the transport call that opens an attempt of f.
FirstCallLine(f) == IF f = "write_once" THEN 339 ELSE 369

RetriedFns == {"write_once", "read_once"}

\* The bytes of the last message handed over by the transport: the assumed
\* destination address, then what the last read(2) and the read after it gave.
LastDelivered ==
    LET R == SelectSeq(log, LAMBDA e : e.op = "read")
    IN IF Len(R) < 2 THEN <<>>
       ELSE <<111>> \o R[Len(R) - 1].bytes \o R[Len(R)].bytes

\* Log positions of the writes of a Set VCP Feature message (6E 51 84 03
\* code hi lo checksum) and of a Get VCP Feature request (6E 51 82 01 code
\* checksum), failed writes included.
IsSetVcp(e) == e.op = "write" /\ Take(e.bytes, 4) = <<110, 81, 132, 3>>
IsGetVcp(e) == e.op = "write" /\ Take(e.bytes, 4) = <<110, 81, 130, 1>>
SetWrites == {i \in DOMAIN log : IsSetVcp(log[i])}
GetWrites == {i \in DOMAIN log : IsGetVcp(log[i])}

\* Log positions at which _read_once had accepted a message: its closing
\* sleep, reached only past the source address, checksum and NULL checks.
ReadsDone == {i \in DOMAIN log : log[i].op = "sleep" /\ log[i].line = 380}

\* The value a Set VCP Feature write carries in its two value bytes.
WrittenValue(e) == (e.bytes[6] * 256) + e.bytes[7]

\* The maximum in the reply the transport delivered last (bytes 7 and 8 of
\* the message after the assumed destination address).
ReplyMaximum == (LastDelivered[8] * 256) + LastDelivered[9]

\* The control of the running getset call is a key of the vcp mapping of
\* the parsed capability string.
Advertised ==
    /\ vcpcode.t = "int"
    /\ parsed_caps.t = "dict"
    /\ "vcp" \in DOMAIN parsed_caps.d
    /\ vcpcode.i \in DOMAIN parsed_caps.d["vcp"].d

\* What the capability string lists for the control: None or a mapping.
AdvertisedValues == parsed_caps.d["vcp"].d[vcpcode.i]

\* The reply get_value returned passed getset's errno and opcode checks.
ReplyAccepted ==
    /\ result # <<>>
    /\ result[1].errno = 0
    /\ result[1].opcode = vcpcode.i

\* C1: in getset, for a control advertised without an enumerated list, a
\* Set VCP Feature message is written only if 0 <= value <= maximum, the
\* maximum being the one in the Get VCP reply read in the same call, and
\* the message carries the control and the requested value.  With maximum
\* 100 a request for 150 writes no Set VCP Feature message, and a returned
\* request for 50 has written one, with value bytes 0x00 0x32.
C1_SetOnlyWithinReportedMaximum ==
    (entry = "getset" /\ Advertised /\ AdvertisedValues.t = "none") =>
        /\ \A i \in SetWrites :
             /\ valuecode.t = "int"
             /\ 0 <= valuecode.i
             /\ valuecode.i <= ReplyMaximum
             /\ ReplyMaximum = result[1].maximum
             /\ log[i].bytes[5] = vcpcode.i
             /\ WrittenValue(log[i]) = valuecode.i
        /\ (gs_value = <<"1", "5", "0">> /\ result # <<>> /\ ReplyMaximum = 100)
             => SetWrites = {}
        /\ ( /\ gs_value = <<"5", "0">>
             /\ outcome.status = "returned"
             /\ ReplyAccepted
             /\ ReplyMaximum = 100 )
             => /\ Cardinality({i \in SetWrites : log[i].ok}) = 1
                /\ \A i \in SetWrites :
                     SubSeq(log[i].bytes, 5, 7) = <<vcpcode.i, 0, 50>>

\* A request for 50 on a control without a list, maximum 100 reported: the
\* call has returned after a Set VCP Feature write with value bytes 00 32.
C1_Witness ==
    /\ entry = "getset"
    /\ outcome.status = "returned"
    /\ Advertised
    /\ AdvertisedValues.t = "none"
    /\ gs_value = <<"5", "0">>
    /\ ReplyMaximum = 100
    /\ \E i \in SetWrites :
         log[i].ok /\ SubSeq(log[i].bytes, 5, 7) = <<16, 0, 50>>

\* C2: in getset, when the capability string lists values for the control,
\* a Set VCP Feature message is written only if the requested value is one
\* of the listed values (and then carries that value); for a value outside
\* the list the log of the call holds no Set VCP Feature write.
C2_SetOnlyForAdvertisedValues ==
    (entry = "getset" /\ Advertised /\ AdvertisedValues.t = "dict") =>
        /\ \A i \in SetWrites :
             /\ valuecode.t = "int"
             /\ valuecode.i \in DOMAIN AdvertisedValues.d
             /\ log[i].bytes[5] = vcpcode.i
             /\ WrittenValue(log[i]) = valuecode.i
        /\ (valuecode.t = "int" /\ valuecode.i \notin DOMAIN AdvertisedValues.d)
             => SetWrites = {}

\* Control 0x14 listed with the values 04 05 96: a request for 5 has
\* returned after its Set VCP Feature write.
C2_Witness ==
    /\ entry = "getset"
    /\ outcome.status = "returned"
    /\ Advertised
    /\ AdvertisedValues.t = "dict"
    /\ DOMAIN AdvertisedValues.d = {4, 5, 150}
    /\ \E i \in SetWrites :
         log[i].ok /\ SubSeq(log[i].bytes, 5, 7) = <<20, 0, 5>>

\* C3: in getset, when the resolved control code is not a key of the vcp
\* mapping of the parsed capability string, the call returns without any
\* transport call: no write, no read, no Get VCP and no Set VCP message.
C3_UnsupportedControlNoTransport ==
    ( /\ entry = "getset"
      /\ vcpcode.t = "int"
      /\ parsed_caps.t = "dict"
      /\ "vcp" \in DOMAIN parsed_caps.d
      /\ vcpcode.i \notin DOMAIN parsed_caps.d["vcp"].d )
        => /\ log = <<>>
           /\ op = "none"
           /\ pc = "idle"
           /\ outcome.status = "returned"

\* A request for a control the capability string does not list has
\* returned with the message of the skip and an empty transport log.
C3_Witness ==
    /\ entry = "getset"
    /\ vcpcode.t = "int"
    /\ parsed_caps.t = "dict"
    /\ "vcp" \in DOMAIN parsed_caps.d
    /\ vcpcode.i \notin DOMAIN parsed_caps.d["vcp"].d
    /\ outcome.status = "returned"
    /\ printed = <<"Ignoring request: VCP code is not supported by this device">>
    /\ log = <<>>

\* C4: within one getset call every Set VCP Feature write comes after a
\* successful write of a Get VCP Feature request for the same control code
\* and, after that, a reply that _read_once accepted and get_value
\* returned; this holds for every value token.
C4_SetPrecededByGetAndReply ==
    entry = "getset" =>
        \A i \in SetWrites :
            /\ result # <<>>
            /\ \E j \in GetWrites :
                 /\ j < i
                 /\ log[j].ok
                 /\ log[j].bytes[5] = log[i].bytes[5]
                 /\ \E k \in ReadsDone : j < k /\ k < i

\* A call that has returned after a successful Set VCP Feature write.
C4_Witness ==
    /\ entry = "getset"
    /\ outcome.status = "returned"
    /\ gs_value # <<"?">>
    /\ \E i \in SetWrites : log[i].ok

\* C5: a getset request whose value token is ? never writes a Set VCP
\* Feature message: every write of the call is a Get VCP Feature request
\* for the control, and when the call has returned for an advertised
\* control it has made exactly one successful Get VCP exchange (one
\* accepted write, one accepted reply) and nothing after it.
C5_QueryNeverSets ==
    (entry = "getset" /\ gs_value = <<"?">>) =>
        /\ SetWrites = {}
        /\ \A i \in DOMAIN log :
             log[i].op = "write" => (IsGetVcp(log[i]) /\ log[i].bytes[5] = vcpcode.i)
        /\ (outcome.status = "returned" /\ Advertised) =>
             /\ Cardinality({i \in GetWrites : log[i].ok}) = 1
             /\ Cardinality(ReadsDone) = 1
             /\ ReadsDone = {Len(log)}

\* A query of an advertised control has returned after printing the
\* current value.
C5_Witness ==
    /\ entry = "getset"
    /\ gs_value = <<"?">>
    /\ Advertised
    /\ outcome.status = "returned"
    /\ printed = <<"Current value of VCP">>
    /\ GetWrites # {}
    /\ ReadsDone = {Len(log)}

\* C6: a retried operation stops at its first successful attempt.  For each
\* retried function, at most retries+1 attempts are made; a successful
\* attempt is the last one, so when attempts 1..k-1 failed and attempt k
\* succeeded exactly k attempts (k opening transport calls) were made;
\* the error of an earlier failed attempt is not raised to the caller; and
\* what _read returns is the message delivered in that k-th attempt.
C6_RetryStopsAtFirstSuccess ==
    \A f \in RetriedFns :
        LET T == TriesOf(f)
            k == Len(T)
            calls == Len(CallsAt(FirstCallLine(f)))
        IN /\ k <= retries + 1
           /\ calls <= retries + 1
           /\ \A i \in 1..k : T[i].ok => i = k
           /\ (k > 0 /\ T[k].ok) =>
                /\ calls = k
                /\ \A i \in 1..(k - 1) : outcome.exc # T[i].exc
                /\ f = "read_once" =>
                     /\ T[k].ret = LastDelivered
                     /\ pc = "get_value_reply" => data = LastDelivered

\* C6 witness: the transport's read raised on its first two calls and
\* succeeded afterwards; three read attempts were made and get_value returned.
C6_Witness ==
    LET T == TriesOf("read_once")
        R == SelectSeq(log, LAMBDA e : e.op = "read")
    IN /\ entry = "get_value"
       /\ pc = "idle"
       /\ outcome.status = "returned"
       /\ Len(T) = 3
       /\ T[1].exc.kind = "TransportError"
       /\ T[2].exc.kind = "TransportError"
       /\ T[3].ok
       /\ Len(CallsAt(369)) = 3
       /\ Len(R) = 4
       /\ ~R[1].ok /\ ~R[2].ok /\ R[3].ok /\ R[4].ok

\* C7: when _retry raises, every one of exactly retries+1 attempts of the
\* retried function has failed, and the exception raised to the caller is
\* the one of the last attempt.  (Exceptions raised by _retry are the ones
\* raised at a transport call: their log position is not 0.)
C7_RaisesLastErrorAfterAllAttempts ==
    (pc = "idle" /\ outcome.status = "raised" /\ outcome.exc.at > 0) =>
        LET T == TriesOf(fn)
        IN /\ Len(T) = retries + 1
           /\ Len(CallsAt(FirstCallLine(fn))) = retries + 1
           /\ \A i \in 1..Len(T) : ~T[i].ok
           /\ outcome.exc = T[Len(T)].exc
           /\ \A i \in 1..(Len(T) - 1) : outcome.exc # T[i].exc

\* C7 witness: four read attempts failed, the first and the last for
\* different reasons, and the caller got the last one's error.
C7_Witness ==
    LET T == TriesOf("read_once")
    IN /\ pc = "idle"
       /\ outcome.status = "raised"
       /\ fn = "read_once"
       /\ Len(T) = 4
       /\ T[1].exc.kind # T[4].exc.kind
       /\ outcome.exc.kind = T[4].exc.kind

\* C8: get_value and set_value with a control code outside 0..255 raise
\* at once: no transport call, no sleep, no attempt of a retried function.
C8_InvalidControlFailsBeforeIO ==
    (entry \in {"get_value", "set_value"} /\ (control < 0 \/ control > 255)) =>
        /\ pc = "idle"
        /\ outcome.status = "raised"
        /\ outcome.exc.kind = "ValueError: Invalid VCP control code"
        /\ log = <<>>
        /\ tries = <<>>

\* C8 witness: set_value was called with control 256 and has raised.
C8_Witness ==
    /\ entry = "set_value"
    /\ control = 256
    /\ outcome.status = "raised"

\* The transport delivered 0x6E 0x80 to the read at log position i and 0xBE
\* to the read after it.
NullDelivered(i) ==
    /\ i + 1 <= Len(log)
    /\ log[i].line = 369 /\ log[i].ok /\ log[i].bytes = <<110, 128>>
    /\ log[i + 1].line = 372 /\ log[i + 1].ok /\ log[i + 1].bytes = <<190>>

\* C9: the reply 0x6F 0x6E 0x80 0xBE is never a successful result of the
\* read path.  No successful read attempt returns it; every delivery of
\* 0x6E 0x80 0xBE makes that attempt fail with the NULL-message error; and
\* when all retries+1 read attempts were given it, the call has raised
\* that error.
C9_NullMessageNeverReturned ==
    /\ \A i \in 1..Len(tries) :
         tries[i].ok => tries[i].ret # <<111, 110, 128, 190>>
    /\ pc \in {"read_sleep", "get_value_reply"} => data # <<111, 110, 128, 190>>
    /\ \A i \in 1..Len(log) :
         NullDelivered(i) =>
            \E j \in 1..Len(tries) :
                /\ ~tries[j].ok
                /\ tries[j].exc = Exc("IOError: Received NULL message", i + 1)
    /\ Cardinality({i \in 1..Len(log) : NullDelivered(i)}) = retries + 1 =>
         /\ pc \in {"retry_sleep", "idle"}
         /\ pc = "idle" =>
              /\ outcome.status = "raised"
              /\ outcome.exc.kind = "IOError: Received NULL message"

\* C9 witness: the transport delivered the NULL message to every read
\* attempt and the call has raised.
C9_Witness ==
    /\ pc = "idle"
    /\ outcome.status = "raised"
    /\ Cardinality({i \in 1..Len(log) : NullDelivered(i)}) = retries + 1

\* C10: checksum(a ++ [checksum(a)]) = 0 for every byte string a, with
\* checksum the XOR of all bytes (no destination override).
C10_ChecksumSelfInverse ==
    Len(cs_out) = 2 => cs_out[2] = 0

\* C11 as stated: for every byte string b, the read path's checksum test
\* accepts frame(b) (and the payload is b).
C11_RoundTripAlways ==
    Len(cs_out) = 3 =>
        /\ cs_out[3] = 0
        /\ deframe_payload(frame(cs_in)) = cs_in

\* C11 (amended): the read path's test on frame(b) yields b[0] XOR 0x50 for
\* a non-empty b and 0x50 for the empty b, so frame(b) is accepted exactly
\* when b starts with the virtual host address 0x50 (and then the payload
\* is b); a message framed for the display (first byte 0x6E) is refused.
C11_RoundTripOnlyForVirtualHost ==
    Len(cs_out) = 3 =>
        /\ cs_in = <<>> => cs_out[3] = 80
        /\ cs_in # <<>> =>
              \A bit \in 0..7 :
                  ((cs_out[3] \div (2 ^ bit)) % 2) =
                  ((((cs_in[1] \div (2 ^ bit)) % 2) + ((80 \div (2 ^ bit)) % 2)) % 2)
        /\ (cs_out[3] = 0) <=> (cs_in # <<>> /\ cs_in[1] = 80)
        /\ cs_out[3] = 0 => deframe_payload(frame(cs_in)) = cs_in
        /\ (cs_in # <<>> /\ cs_in[1] = 110) => cs_out[3] = 62

\* A full-length byte string that starts with 0x50 has been framed and
\* accepted by the read path's test.
C11_Witness ==
    /\ Len(cs_in) = MaxLen
    /\ cs_in[1] = 80
    /\ Len(cs_out) = 3
    /\ cs_out[3] = 0

\* The bytes of the message whose second read is at log position i: the
\* assumed destination address, then what the two reads delivered.
DeliveredAt(i) == <<111>> \o log[i - 1].bytes \o log[i].bytes

\* Log positions of a second read that delivered bytes.
BodyReads == {i \in 2..Len(log) : log[i].line = 372 /\ log[i].ok}

\* 0x50 XOR all received bytes of message d, d[1] being the synthesized
\* first byte.
ReceivedXor(d) == XorFold(80, Tail(d))

\* C12: every reply the read path returns has 0x50 XOR (all received
\* bytes after the synthesized 0x6F) = 0; a received reply for which this
\* XOR is not 0 makes its attempt fail with the checksum error and is
\* never returned.
C12_ReturnedRepliesHaveZeroXor ==
    /\ \A j \in 1..Len(tries) :
         (tries[j].fn = "read_once" /\ tries[j].ok) =>
             /\ tries[j].ret[1] = 111
             /\ ReceivedXor(tries[j].ret) = 0
    /\ pc \in {"read_sleep", "get_value_reply", "capabilities_reply"} =>
         ReceivedXor(data) = 0
    /\ \A i \in BodyReads :
         ReceivedXor(DeliveredAt(i)) # 0 =>
             /\ \E j \in 1..Len(tries) :
                  tries[j] = Try("read_once", FALSE,
                                 Exc("IOError: Received data with BAD checksum", i),
                                 <<>>)
             /\ \A j \in 1..Len(tries) : tries[j].ret # DeliveredAt(i)
             /\ i < Len(log) => log[i + 1] = SleepEvent(Scaled(40), 315)

\* A reply with a damaged checksum was delivered and refused, and a later
\* attempt returned a good one.
C12_Witness ==
    /\ pc = "idle"
    /\ outcome.status = "returned"
    /\ \E i \in BodyReads : ReceivedXor(DeliveredAt(i)) # 0
    /\ \E j \in 1..Len(tries) : tries[j].fn = "read_once" /\ tries[j].ok

\* Log positions of a first read that delivered a source address other
\* than 0x6E.
ForeignHeaders ==
    {i \in 1..Len(log) : /\ log[i].line = 369
                         /\ log[i].ok
                         /\ Len(log[i].bytes) >= 1
                         /\ log[i].bytes[1] # 110}

\* C13: a reply whose first received byte is not 0x6E makes the read
\* attempt raise the protocol error; the next logged call is _retry's
\* sleep, so the rest of the reply is not requested in that attempt; and
\* no message with another source address is ever returned.
C13_ForeignSourceRefusedAtOnce ==
    /\ \A i \in ForeignHeaders :
         /\ \E j \in 1..Len(tries) :
              tries[j] = Try("read_once", FALSE,
                             Exc("IOError: Unexpected reply from address", i),
                             <<>>)
         /\ i < Len(log) => log[i + 1].op = "sleep" /\ log[i + 1].line = 315
         /\ i = Len(log) => pc = "retry_sleep"
    /\ \A j \in 1..Len(tries) :
         (tries[j].fn = "read_once" /\ tries[j].ok) => tries[j].ret[2] = 110
    /\ pc \in {"read_body", "read_sleep", "get_value_reply", "capabilities_reply"} =>
         data[2] = 110

\* A reply from source address 0x51 was delivered and refused, and a later
\* attempt returned a reply.
C13_Witness ==
    /\ pc = "idle"
    /\ outcome.status = "returned"
    /\ \E i \in ForeignHeaders : log[i].bytes[1] = 81 /\ i < Len(log)
    /\ \E j \in 1..Len(tries) : tries[j].fn = "read_once" /\ tries[j].ok

\* The replies the read path has returned, in order.
AcceptedReplies ==
    LET T == SelectSeq(tries, LAMBDA t : t.fn = "read_once" /\ t.ok)
    IN [k \in 1..Len(T) |-> T[k].ret]

\* The bytes of a reply after its 6-byte envelope (assumed destination,
\* source, length, opcode, two offset bytes) and before its checksum.
AfterEnvelope(d) == SubSeq(d, 7, Len(d) - 1)

RECURSIVE PayloadsUpTo(_, _)
\* The payloads of the first k replies of A, concatenated.
PayloadsUpTo(A, k) ==
    IF k = 0 THEN <<>> ELSE PayloadsUpTo(A, k - 1) \o AfterEnvelope(A[k])

\* The number of replies returned before log position i.
RepliesBefore(i) == Cardinality({k \in ReadsDone : k < i})

\* C14: request_capabilities sends its first Capabilities Request with
\* offset 0 and every later one with the number of payload bytes of all
\* replies returned before it; only the last reply returned can have an
\* empty payload, and after it no further call is made; the value
\* returned is the payloads concatenated in the order received (with the
\* display of this model, its capability string).
C14_CapabilitiesPagedByAccumulatedOffset ==
    entry = "request_capabilities" =>
        LET A == AcceptedReplies
            n == Len(A)
        IN /\ \A i \in DOMAIN log :
                log[i].op = "write" =>
                    /\ SubSeq(log[i].bytes, 1, 4) = <<110, 81, 131, 243>>
                    /\ (log[i].bytes[5] * 256) + log[i].bytes[6] =
                           Len(PayloadsUpTo(A, RepliesBefore(i)))
                    /\ RepliesBefore(i) = 0 => SubSeq(log[i].bytes, 5, 6) = <<0, 0>>
           /\ \A k \in 1..(n - 1) : AfterEnvelope(A[k]) # <<>>
           /\ (n > 0 /\ AfterEnvelope(A[n]) = <<>>) =>
                /\ pc \in {"capabilities_reply", "idle"}
                /\ log[Len(log)].line = 380
           /\ pc \in {"write_once", "write_sleep", "read_hdr", "read_body", "retry_sleep"} =>
                /\ caps_result = PayloadsUpTo(A, n)
                /\ offset = Len(caps_result)
           /\ (pc = "idle" /\ outcome.status = "returned") =>
                /\ n > 0
                /\ AfterEnvelope(A[n]) = <<>>
                /\ caps_result = PayloadsUpTo(A, n)
                /\ caps_result = DisplayCaps

\* The capability string was returned after four requests, one of which
\* had to be read twice.
C14_Witness ==
    /\ entry = "request_capabilities"
    /\ pc = "idle"
    /\ outcome.status = "returned"
    /\ caps_result = DisplayCaps
    /\ Len(AcceptedReplies) = 4
    /\ Len(CallsAt(369)) = 5
    /\ Cardinality({i \in DOMAIN log : log[i].op = "write" /\ log[i].ok}) = 4

\* C15 as stated: for every accumulated offset in 0..65535 the pass of the
\* loop writes the Capabilities Request 6E 51 83 F3, the offset as two
\* bytes (offset div 256, offset mod 256), and the checksum.
C15_RequestForEveryOffset ==
    (entry = "request_capabilities" /\ offset \in 0..65535) =>
        LET m == <<110, 81, 131, 243, offset \div 256, offset % 256>>
        IN /\ outcome.status # "raised"
           /\ message = m
           /\ pc # "write_once" =>
                \E i \in DOMAIN log :
                    /\ log[i].op = "write"
                    /\ log[i].bytes = Append(m, XorFold(0, m))

\* The replies _read returned during the call, as the attempts recorded them.
RepliesRead ==
    {tries[i].ret : i \in {j \in DOMAIN tries :
                              tries[j].fn = "read_once" /\ tries[j].ok}}

Malformed(d) == Len(d) # 12 \/ d[4] # 2

\* C16: get_value raises and builds no value record whenever the reply that
\* was read is not 12 bytes long or its reply opcode byte (index 3) is not
\* 0x02: once get_value is over after such a reply, it has raised the
\* ValueError of the check that failed (length first) and holds no record.
C16_MalformedReplyRaises ==
    (op = "get_value" /\ pc = "idle") =>
        \A d \in RepliesRead :
            Malformed(d) =>
                /\ outcome.status = "raised"
                /\ outcome.exc =
                     IF Len(d) # 12
                     THEN Exc("ValueError: Received reply of unexpected length", 0)
                     ELSE Exc("ValueError: Received reply of unexpected opcode", 0)
                /\ result = <<>>

\* C16 witness: a 12-byte reply with opcode 0x03 was read and get_value has
\* raised.
C16_Witness ==
    /\ op = "get_value" /\ pc = "idle"
    /\ outcome.status = "raised"
    /\ \E d \in RepliesRead : Len(d) = 12 /\ d[4] = 3

\* C17 as stated: get_value raises, and returns no value record, when the
\* result code byte (index 4) of a well-formed Get VCP reply is non-zero.
C17_NonZeroResultCodeRaises ==
    (op = "get_value" /\ entry = "get_value" /\ pc = "idle") =>
        \A d \in RepliesRead :
            (~Malformed(d) /\ d[5] # 0) =>
                outcome.status = "raised" /\ result = <<>>

\* C17, amended: get_value does not judge the result code.  For every
\* reply of 12 bytes with reply opcode 0x02 it returns the value record,
\* whose errno is the result code byte of the reply, zero or not.
C17_ResultCodeReturnedInRecord ==
    (op = "get_value" /\ entry = "get_value" /\ pc = "idle") =>
        \A d \in RepliesRead :
            ~Malformed(d) =>
                /\ outcome.status = "returned"
                /\ Len(result) = 1
                /\ result[1].errno = d[5]
                /\ result[1].maximum = d[8] * 256 + d[9]
                /\ result[1].value = d[10] * 256 + d[11]

\* C17 witness: get_value has returned a record with a non-zero errno.
C17_Witness ==
    /\ op = "get_value" /\ entry = "get_value" /\ pc = "idle"
    /\ outcome.status = "returned"
    /\ result # <<>> /\ result[1].errno # 0
    /\ \E d \in RepliesRead : ~Malformed(d) /\ d[5] # 0

\* The successful read attempts of the call that returned a malformed reply.
MalformedReads ==
    {j \in DOMAIN tries :
        tries[j].fn = "read_once" /\ tries[j].ok /\ Malformed(tries[j].ret)}

MalformedErrors ==
    {Exc("ValueError: Received reply of unexpected length", 0),
     Exc("ValueError: Received reply of unexpected opcode", 0)}

\* C18 as stated: a malformed Get VCP reply (good framing and checksum,
\* but a length other than 12 or a reply opcode other than 0x02) is
\* retried: its error reaches the caller of get_value only after
\* retries + 1 = 4 attempts have read a malformed reply.
C18_MalformedReplyRetried ==
    (op = "get_value" /\ entry = "get_value" /\ pc = "idle"
       /\ outcome.status = "raised" /\ outcome.exc \in MalformedErrors) =>
        Cardinality(MalformedReads) = retries + 1

\* The interval, in ms, configured for the attempt of f in operation o.
ConfiguredInterval(o, f) ==
    CASE o = "get_value" -> 40
      [] o = "set_value" -> 50
      [] o = "save_settings" -> 200
      [] o = "request_capabilities" -> IF f = "write_once" THEN 40 ELSE 50
      [] OTHER -> 0

\* C19 as stated: the sleep after a failed attempt of a retried operation
\* is that operation's configured interval times 1.5: 60 ms for get_value,
\* 75 ms for set_value, 300 ms for save_settings.
C19_RetrySleepIsOperationInterval ==
    (log # <<>> /\ log[Len(log)].line = 315) =>
        log[Len(log)].n * 2 = ConfiguredInterval(op, fn) * 3

\* The delay, in ms, that follows a successful write of the operation.
WriteDelay ==
    CASE op = "get_value" -> 60
      [] op = "set_value" -> 75
      [] op = "save_settings" -> 300
      [] OTHER -> 0

\* C20: every successful transport write is followed at once by the sleep
\* of _write_once (line 340) of the operation's interval times 1.5: 60 ms
\* for get_value, 75 ms for set_value, 300 ms for save_settings.  While
\* that sleep is pending the engine is at it and nowhere else, so no
\* transport call comes between the write and its delay.
C20_WriteFollowedByDelay ==
    \A i \in DOMAIN log :
        (log[i].op = "write" /\ log[i].ok) =>
            IF i = Len(log)
            THEN pc = "write_sleep"
            ELSE log[i + 1] = SleepEvent(WriteDelay, 340)

\* C20 witness: save_settings wrote its message at the second attempt and
\* slept 300 ms after it.
C20_Witness ==
    /\ op = "save_settings"
    /\ \E i \in DOMAIN log :
         /\ i > 1 /\ i < Len(log)
         /\ log[i].op = "write" /\ log[i].ok
         /\ log[i + 1].op = "sleep" /\ log[i + 1].n = 300

\* A mapping whose keys are the given codes, every one mapped to null.
Nulls(codes) == [c \in codes |-> ValNone]

\* What the claim gives for the Cintiq 13HD string.
Cintiq13HDTree ==
    ("prot" :> ValStr(<<"m", "o", "n", "i", "t", "o", "r">>))
    @@ ("type" :> ValStr(<<"L", "C", "D">>))
    @@ ("model" :> ValStr(<<"W", "a", "c", "o", "m", " ", "C", "i", "n", "t",
                            "i", "q", " ", "1", "3", "H", "D">>))
    @@ ("cmds" :> ValDict(Nulls({1, 2, 3, 7, 12, 227, 243})))
    @@ ("vcp" :> ValDict(
            (20 :> ValDict(Nulls({4, 5, 8, 11})))
            @@ (134 :> ValDict(Nulls({3, 8})))
            @@ Nulls({2, 4, 8, 16, 18, 22, 24, 26, 82, 108, 110, 112, 172,
                      174, 182, 200, 223})))
    @@ ("mswhql" :> ValStr(<<"1">>))
    @@ ("asset_eep" :> ValStr(<<"4", "0">>))
    @@ ("mccs_ver" :> ValStr(<<"2", ".", "1">>))

\* What the claim gives for the vcp section 10 14(05).
SampleVcpTree == ValDict((16 :> ValNone) @@ (20 :> ValDict(Nulls({5}))))

\* C21 as stated: for a well-formed capability string parse_capabilities
\* maps every key other than cmds/vcp to the text inside its parentheses
\* and cmds/vcp to integer-keyed mappings, a code followed by a group to
\* the mapping of the group and every other code to null; the Cintiq 13HD
\* string gives the tree of the docstring.
C21_WellFormedStringMapped ==
    WasCalled("parse_capabilities") =>
        /\ call_args = Cintiq13HD =>
              Returned("parse_capabilities") = Converted(ValDict(Cintiq13HDTree))
        /\ \A k \in LeafKeys, t \in LeafTexts :
              /\ call_args = <<"(">> \o Section(k, t) \o <<")">> =>
                    Returned("parse_capabilities") =
                        Converted(ValDict(Join(k) :> ValStr(t)))
              /\ call_args = <<"(">> \o Section(k, t)
                                \o Section(<<"v", "c", "p">>,
                                     <<"1", "0", " ", "1", "4", "(", "0", "5", ")">>)
                                \o <<")">> =>
                    Returned("parse_capabilities") =
                        Converted(ValDict((Join(k) :> ValStr(t))
                                          @@ ("vcp" :> SampleVcpTree)))

\* One top-level node that is a list of alternating keys and groups.
RootIsPairs(tree) ==
    /\ tree.kind = "list"
    /\ Len(tree.nodes) = 1
    /\ tree.nodes[1].t = "list"
    /\ Len(tree.nodes[1].l) % 2 = 0
    /\ \A i \in DOMAIN tree.nodes[1].l :
         tree.nodes[1].l[i].t = (IF i % 2 = 1 THEN "str" ELSE "list")

\* The ValueErrors the parser raises.
ValueErrors == {
    "ValueError: Unexpected data outside of capabilities root",
    "ValueError: unpack",
    "ValueError: Discovered child without context",
    "ValueError: invalid literal for int() with base 16"}

\* C22 as stated: parse_capabilities fails with a ValueError for every
\* input whose parsed tree is not exactly one top-level node that is a list
\* of alternating key, value pairs (the empty string, text around the root
\* group, no parentheses at all); no such input yields a capability tree.
C22_MalformedInputRefused ==
    (WasCalled("parse_capabilities")
       /\ ~RootIsPairs(_parse_tree(call_args, <<" ">>, 0))) =>
        /\ ~Returned("parse_capabilities").ok
        /\ Returned("parse_capabilities").err \in ValueErrors

RECURSIVE AllHex(_)
\* Every item that is no group is a hexadecimal code.
AllHex(items) ==
    \A i \in DOMAIN items :
        IF items[i].t = "list" THEN AllHex(items[i].l)
        ELSE IntBase16(items[i].s).ok

RECURSIVE Orphaned(_)
\* Some group, at this level or below, is the first item of its level or
\* directly follows another group.
Orphaned(items) ==
    \E i \in DOMAIN items :
        /\ items[i].t = "list"
        /\ \/ i = 1
           \/ items[i - 1].t = "list"
           \/ Orphaned(items[i].l)

OrphanedChild == ConvertError("ValueError: Discovered child without context")

\* The trees of codes and groups among the inputs.
IsBlobTree(tree) == tree.kind = "list" /\ AllHex(tree.nodes)

\* C23: converting a tree of codes and groups raises ValueError("Discovered
\* child without context") exactly when some group is the first item of its
\* level or directly follows another group; a group directly after a code
\* does not raise it.  The same holds when the tree is the vcp section of a
\* capability string handed to parse_capabilities.
C23_OrphanedChildRaises ==
    /\ (WasCalled("_convert_blobtree")
          /\ IsBlobTree(_parse_tree(call_args, <<" ">>, 0))) =>
           IF Orphaned(_parse_tree(call_args, <<" ">>, 0).nodes)
           THEN Returned("_convert_blobtree") = OrphanedChild
           ELSE Returned("_convert_blobtree").ok
    /\ WasCalled("parse_capabilities") =>
           \A b \in BlobBodies :
               call_args = InVcp(b) =>
                   IF Orphaned(_parse_tree(b, <<" ">>, 0).nodes)
                   THEN Returned("parse_capabilities") = OrphanedChild
                   ELSE Returned("parse_capabilities").ok

\* C23 witness: a group that directly follows the group of a code has
\* raised, in _convert_blobtree and in a vcp section.
C23_Witness ==
    \/ /\ call_args = <<"1", "4", " ", "(", "0", "4", " ", "0", "5", ")",
                         " ", "(", ")">>
       /\ WasCalled("_convert_blobtree")
       /\ Returned("_convert_blobtree") = OrphanedChild
    \/ /\ call_args = InVcp(<<"1", "4", " ", "(", "0", "4", " ", "0", "5", ")",
                               " ", "(", ")">>)
       /\ WasCalled("parse_capabilities")
       /\ Returned("parse_capabilities") = OrphanedChild

\* C24 as stated: a leaf string without parentheses, tokenized with the
\* space separator and flattened again with it, comes back unchanged,
\* consecutive, leading and trailing spaces included.
C24_ReflattenIsIdentity ==
    WasCalled("_unparse_tree") => Returned("_unparse_tree") = call_args

\* The string a token spells, "" for a token that is no string.
Spelled(token) == IF token.t = "str" THEN Join(token.s) ELSE ""

\* The token is a decimal or hex numeral of the code.
IsNumeralOf(token, code) ==
    /\ token.t = "str"
    /\ Len(token.s) <= 4
    /\ token.s \in {Dec(code), Hex(code)}

\* The token, which spells `spelled`, names the code or the name: it is
\* the int itself, a numeral of it, or the name.
Names(token, spelled, code, name) ==
    \/ token.t = "int" /\ token.i = code
    \/ token.t = "str" /\ spelled = name
    \/ IsNumeralOf(token, code)

NameOf(name) == [t |-> "name", name |-> name]

\* C25 for the control token vcp and the value token val, which spell sv
\* and sl.
Bidirectional(codes, vcp, sv, val, sl) ==
    \A i \in DOMAIN codes :
        Names(vcp, sv, codes[i].code, codes[i].name) =>
            /\ WasCalled("get_vcp_code") =>
                  Returned("get_vcp_code") = PyInt(codes[i].code)
            /\ WasCalled("get_vcp_name") =>
                  Returned("get_vcp_name") = NameOf(codes[i].name)
            /\ (WasCalled("get_value_code") /\ val.t = "str") =>
                  \A j \in DOMAIN codes[i].known_values :
                      sl = codes[i].known_values[j][2] =>
                          Returned("get_value_code") =
                              PyInt(codes[i].known_values[j][1])

\* C25: lookup is bidirectional over the whole table.  For every entry
\* (code, name): the name and the decimal and hex numerals of the code
\* resolve to the code, and the code resolves to the name; for every
\* enumerated (value, value-name) of the control, the value-name resolves
\* to the value under that control.  So "brightness" and "0x10" give 0x10
\* and "6500-k" under 0x14 gives 0x05.
C25_LookupBidirectional ==
    /\ Bidirectional(_codes, call_args[1], Spelled(call_args[1]),
                     call_args[2], Spelled(call_args[2]))
    /\ (WasCalled("get_vcp_code")
          /\ call_args[1] \in {PyStr(<<"b", "r", "i", "g", "h", "t", "n", "e", "s", "s">>),
                                PyStr(<<"0", "x", "1", "0">>)}) =>
           Returned("get_vcp_code") = PyInt(16)
    /\ (WasCalled("get_value_code")
          /\ call_args = <<PyInt(20), PyStr(<<"6", "5", "0", "0", "-", "k">>)>>) =>
           Returned("get_value_code") = PyInt(5)

\* C25 witness: 6500-k has been resolved under control 0x14, to 0x05.
C25_Witness ==
    /\ call_args = <<PyInt(20), PyStr(<<"6", "5", "0", "0", "-", "k">>)>>
    /\ WasCalled("get_value_code")
    /\ Returned("get_value_code") = PyInt(5)
    /\ Returned("get_vcp_name") = NameOf("select-color-preset")

\* C26 for the control token vcp, which spells sv, and the value token val.
NumeralResolved(codes, vcp, sv, val) ==
    \A i \in DOMAIN codes :
        Names(vcp, sv, codes[i].code, codes[i].name) =>
            \A j \in DOMAIN codes[i].known_values :
                IsNumeralOf(val, codes[i].known_values[j][1]) =>
                    /\ WasCalled("get_value_code") =>
                          Returned("get_value_code") =
                              PyInt(codes[i].known_values[j][1])
                    /\ WasCalled("get_value_name") =>
                          Returned("get_value_name") =
                              NameOf(codes[i].known_values[j][2])

\* C26 as stated: a value token that is a decimal or hex numeral of an
\* enumerated value v of the control resolves to v and to the name of v.
C26_ValueNumeralResolved ==
    NumeralResolved(_codes, call_args[1], Spelled(call_args[1]), call_args[2])

\* Every call made so far gave None.
AllNone == \A k \in DOMAIN call_ret : call_ret[k].v = PyNone

\* C27 for the control token vcp and the value token val, which spell sv
\* and sl.
UnknownIsNone(codes, vcp, sv, val, sl) ==
    /\ (\A i \in DOMAIN codes :
            ~Names(vcp, sv, codes[i].code, codes[i].name)) => AllNone
    /\ \A i \in DOMAIN codes :
         (/\ Names(vcp, sv, codes[i].code, codes[i].name)
          /\ val # PyNone
          /\ \A j \in DOMAIN codes[i].known_values :
                ~Names(val, sl, codes[i].known_values[j][1],
                       codes[i].known_values[j][2])) =>
            /\ WasCalled("get_value_code") =>
                  Returned("get_value_code") = PyNone
            /\ WasCalled("get_value_name") =>
                  Returned("get_value_name") = PyNone

\* C27: lookups of unknown input give None and raise nothing.  A control
\* token that names no entry gives None in all four lookups; under a known
\* control, a value token that names no entry of its list gives None in
\* the two value lookups, and so does every value token when the control
\* has no list.  Every call made has given back a value.
C27_UnknownGivesNone ==
    /\ UnknownIsNone(_codes, call_args[1], Spelled(call_args[1]),
                     call_args[2], Spelled(call_args[2]))
    /\ \A k \in DOMAIN call_ret : call_ret[k].v.t \in {"none", "int", "name"}

\* C27 witness: under control 0x14, which has a list, the unknown value
\* name nope gave None twice; under brightness, which has none, 200 did.
C27_Witness ==
    /\ WasCalled("get_value_name")
    /\ Returned("get_value_code") = PyNone
    /\ Returned("get_value_name") = PyNone
    /\ Returned("get_vcp_code") \in {PyInt(20), PyInt(16)}
    /\ call_args[2] \in {PyStr(<<"n", "o", "p", "e">>), PyInt(200)}

\* The value token of the getset call, spelled sl, is the name of an
\* enumerated value of the control its control token, spelled sv, names:
\* then valuecode is that value and the value was not refused.
ValueNameResolved(codes, sv, sl) ==
    \A i \in DOMAIN codes :
        Names(PyStr(gs_vcp), sv, codes[i].code, codes[i].name) =>
            \A j \in DOMAIN codes[i].known_values :
                sl = codes[i].known_values[j][2] =>
                    /\ valuecode = PyInt(codes[i].known_values[j][1])
                    /\ \A k \in DOMAIN printed :
                           printed[k] # "Ignoring unrecognized VCP value"

\* C28 as stated: in getset a value given as a known value name of the
\* requested control is resolved to that control's value code; it is not
\* refused as unrecognized.  So 20=6500-k (20 is 0x14, select-color-preset)
\* has the value code 0x05.
C28_ValueNameResolved ==
    entry = "getset" => ValueNameResolved(_codes, Join(gs_vcp), Join(gs_value))

\* What getset prints when it refuses a request on grounds of the domain.
DomainPolicyMessages == {
    "Ignoring unrecognized VCP code",
    "Ignoring unrecognized VCP value",
    "Ignoring request: VCP code is not supported by this device",
    "Ignoring request to set: Value not one of the supported items",
    "Ignoring request to set: Value is outside the supported range"}

\* getset has refused the argument it was called for.
Skipped ==
    /\ entry = "getset"
    /\ printed # <<>>
    /\ printed[Len(printed)] \in DomainPolicyMessages

\* The argument the for loop is at is the one getset was called for.
InOrder ==
    /\ argi \in 1..Len(argv)
    /\ gs_vcp \o <<"=">> \o gs_value = argv[argi]

\* C29: a refusal on grounds of the domain skips that one argument only.
\* getset ends by a return, never by an exception; the loop's next step
\* from there leaves the argument list and the place in it as they are and
\* brings the program to the state it was in before its first argument, so
\* that what follows is what would follow had the refused argument not been
\* given; the loop takes the arguments one by one in the order given.
C29_SkipOnlyThatArgument ==
    /\ [](Skipped => pc = "idle" /\ outcome.status = "returned")
    /\ [](Ready => InitIdle /\ raw_caps = MainCapabilities)
    /\ [](entry = "getset" => InOrder)
    /\ [][Skipped => Ready' /\ argi' = argi /\ argv' = argv]_vars
    /\ [][(Ready /\ argi < Len(argv)) =>
            argi' = argi + 1 /\ argv' = argv /\ entry' # "none"]_vars

\* C29 witness: nope=5 was refused, and 0x10=50 after it has been carried
\* out by a Set VCP Feature message.
C29_Witness ==
    /\ argv = << <<"n", "o", "p", "e", "=", "5">>,
                 <<"0", "x", "1", "0", "=", "5", "0">> >>
    /\ argi = 2
    /\ InOrder
    /\ outcome.status = "returned"
    /\ printed = <<"Set value of VCP">>

\* C30: for every reply of 12 bytes with reply opcode 0x02 that get_value
\* has read, the record it returns is made of the reply's bytes: errno is
\* byte 4, opcode byte 5 and type byte 6, maximum is 256 * byte 7 + byte 8
\* and value is 256 * byte 9 + byte 10 (bytes counted from 0), and maximum
\* and value lie in 0..65535.
C30_RecordFieldsFromReplyBytes ==
    (entry = "get_value" /\ op = "get_value" /\ pc = "idle") =>
        \A d \in RepliesRead :
            (Len(d) = 12 /\ d[4] = 2) =>
                /\ result = <<[errno |-> d[5], opcode |-> d[6], type |-> d[7],
                               maximum |-> 256 * d[8] + d[9],
                               value |-> 256 * d[10] + d[11]]>>
                /\ result[1].maximum \in 0..65535
                /\ result[1].value \in 0..65535

\* C30 witness: get_value has returned the record of a reply whose maximum
\* does not fit in one byte and is not the same read backwards.
C30_Witness ==
    /\ entry = "get_value" /\ op = "get_value" /\ pc = "idle"
    /\ outcome.status = "returned"
    /\ \E d \in RepliesRead : Len(d) = 12 /\ d[4] = 2 /\ d[8] # d[9]
    /\ result[1].maximum = 300

\* The seven bytes of a Set VCP Feature message for the arguments of the
\* running set_value call.
SetVcpBytes == <<110, 81, 132, 3, control, value \div 256, value % 256>>

\* C31: for a control in 0..255 and a value in 0..65535, every message
\* set_value hands the transport is the 8 bytes 6E 51 84 03, control,
\* value div 256, value mod 256 and the XOR of those seven bytes, and
\* set_value asks the transport for no read.
C31_SetWritesEightBytesAndReadsNothing ==
    (entry = "set_value" /\ control \in 0..255 /\ value \in 0..65535) =>
        \A i \in DOMAIN log :
            /\ log[i].op # "read"
            /\ log[i].op = "write" =>
                  log[i].bytes = Append(SetVcpBytes, XorFold(0, SetVcpBytes))

\* C31 witness: set_value(16, 50) has returned after a write that the
\* transport took.
C31_Witness ==
    /\ entry = "set_value" /\ control = 16 /\ value = 50
    /\ pc = "idle" /\ outcome.status = "returned"
    /\ \E i \in DOMAIN log :
           /\ log[i].op = "write" /\ log[i].ok
           /\ log[i].bytes = <<110, 81, 132, 3, 16, 0, 50, 154>>

\* The second read of a read attempt at log position i asked for as many
\* bytes as the low seven bits of the length byte, plus one.
AskedByLowSevenBits(i) ==
    log[i].n = (log[i - 1].bytes[2] % 128) + 1

\* The message d with the top bit of its length byte set and its checksum
\* changed to match.
WithTopBit(d) ==
    IF d[3] >= 128 THEN d
    ELSE [d EXCEPT ![3] = d[3] + 128, ![Len(d)] = Xor(d[Len(d)], 128)]

\* The read attempt whose second read is at log position i accepted the
\* message: its closing sleep follows.
AcceptedAt(i) ==
    IF i < Len(log) THEN log[i + 1].line = 380 ELSE pc = "read_sleep"

\* C32 as stated: the second read asks for (L mod 128) + 1 bytes, and the
\* top bit of L changes neither that number nor whether the message is
\* accepted: a message is accepted exactly when its checksum is good and,
\* with the top bit set, it is not the NULL message 6F 6E 80 BE.
C32_TopBitChangesNothing ==
    /\ \A i \in 2..Len(log) : log[i].line = 372 => AskedByLowSevenBits(i)
    /\ \A i \in BodyReads :
         AcceptedAt(i) <=>
             /\ ReceivedXor(DeliveredAt(i)) = 0
             /\ WithTopBit(DeliveredAt(i)) # <<111, 110, 128, 190>>

\* C32, amended: the second read asks for (L mod 128) + 1 bytes whatever
\* the top bit of L; a message with a good checksum is accepted whatever
\* the top bit of L, except the NULL message 6F 6E 80 BE, which is
\* refused while the same empty message without the top bit, 6F 6E 00 3E,
\* is accepted.
C32_TopBitIgnoredButForNull ==
    /\ \A i \in 2..Len(log) : log[i].line = 372 => AskedByLowSevenBits(i)
    /\ \A i \in BodyReads :
         AcceptedAt(i) <=>
             /\ ReceivedXor(DeliveredAt(i)) = 0
             /\ DeliveredAt(i) # <<111, 110, 128, 190>>

\* C32 witness: the NULL message was refused, and the empty message
\* without the top bit, given to a later attempt, was returned.
C32_Witness ==
    /\ entry = "_read" /\ pc = "idle" /\ outcome.status = "returned"
    /\ \E i \in BodyReads : DeliveredAt(i) = <<111, 110, 128, 190>>
    /\ data = <<111, 110, 0, 62>>

RECURSIVE KeysAreBytes(_)
\* Every key of the mapping v, at every nesting level, lies in 0..255.
KeysAreBytes(v) ==
    v.t = "dict" =>
        \A k \in DOMAIN v.d : k \in 0..255 /\ KeysAreBytes(v.d[k])

\* C33 as stated: every key of the cmds and vcp mappings that
\* parse_capabilities produces, at every nesting level, lies in 0..255.
C33_BlobKeysAreBytes ==
    (WasCalled("parse_capabilities") /\ Returned("parse_capabilities").ok) =>
        \A s \in {"cmds", "vcp"} \cap DOMAIN Returned("parse_capabilities").v.d :
            KeysAreBytes(Returned("parse_capabilities").v.d[s])

\* Log positions of the transport writes, and of the first read of each
\* read attempt.
Writes == {i \in DOMAIN log : log[i].op = "write"}
ReadAttempts == {i \in DOMAIN log : log[i].op = "read" /\ log[i].line = 369}

\* C34: in get_value the write and the read are retried separately.  No
\* write follows a read, so a failed read attempt never has the request
\* written again; a call makes at most 4 writes and at most 4 read
\* attempts; a write the transport took is the last write, so that a call
\* whose first write succeeds makes exactly 1 write however many read
\* attempts fail.
C34_WriteAndReadRetriedSeparately ==
    (entry = "get_value" /\ op = "get_value") =>
        /\ \A i \in Writes : \A j \in DOMAIN log : log[j].op = "read" => i < j
        /\ Cardinality(Writes) <= 4
        /\ Cardinality(ReadAttempts) <= 4
        /\ \A i \in Writes : log[i].ok => \A j \in Writes : j <= i
        /\ (log # <<>> /\ log[1].ok) => Writes = {1}

\* C34 witness: the first write succeeded, all four read attempts failed
\* and the call has raised, after one write.
C34_Witness ==
    /\ entry = "get_value" /\ op = "get_value"
    /\ pc = "idle" /\ outcome.status = "raised"
    /\ log # <<>> /\ log[1].op = "write" /\ log[1].ok
    /\ Cardinality(ReadAttempts) = 4
    /\ Cardinality(Writes) = 1

CountIn(s, c, a, b) == Cardinality({k \in a..b : s[k] = c})

\* Is there a "(" in s that no later ")" closes?
UnmatchedOpen(s) ==
    \E i \in DOMAIN s :
        /\ s[i] = "("
        /\ \A j \in (i + 1)..Len(s) :
             CountIn(s, ")", i + 1, j) <= CountIn(s, "(", i + 1, j)

\* Is there a ")" in s that closes nothing?
StrayClose(s) ==
    \E j \in DOMAIN s :
        /\ s[j] = ")"
        /\ CountIn(s, ")", 1, j) > CountIn(s, "(", 1, j)

\* C36: for every string with a "(" that is never closed parse_capabilities
\* raises and returns no tree; _parse_tree itself raises for it whenever
\* its scan gets to the end of the string, that is when no ")" before
\* closes nothing.
C36_UnmatchedOpenRaises ==
    (WasCalled("parse_capabilities") /\ UnmatchedOpen(call_args)) =>
        /\ ~Returned("parse_capabilities").ok
        /\ ~StrayClose(call_args) =>
              _parse_tree(call_args, <<" ">>, 0).kind = "error"

\* C36 witness: "((a)" has been parsed, the inner group closed and the
\* outer one not, and the call raised.
C36_Witness ==
    /\ WasCalled("parse_capabilities")
    /\ call_args = <<"(", "(", "a", ")">>
    /\ UnmatchedOpen(call_args)
    /\ ~Returned("parse_capabilities").ok

\* The messages handed to the transport in the call in progress, taken or
\* not, without their checksum.
Written == {Take(log[i].bytes, Len(log[i].bytes) - 1) :
               i \in {j \in DOMAIN log : log[j].op = "write"}}

\* A Get VCP Feature or Set VCP Feature message: 6E 51 82 01 .., 6E 51 84 03 ..
GetVcpMessage(m) == Len(m) = 5 /\ Take(m, 4) = <<110, 81, 130, 1>>
SetVcpMessage(m) == Len(m) = 7 /\ Take(m, 4) = <<110, 81, 132, 3>>
CapabilitiesRequestMessage(m) == Len(m) = 6 /\ Take(m, 4) = <<110, 81, 131, 243>>
SaveSettingsMessage(m) == Take(m, 4) = <<110, 81, 129, 12>>

GetOrSetWritten == \E m \in Written : GetVcpMessage(m) \/ SetVcpMessage(m)

\* C37: in a run of main a Get VCP or Set VCP message is written only in
\* the body of the with statement, which is entered only by the return of
\* request_capabilities after a reply with an empty payload, the string
\* received being the session's capability string; after a capability
\* exchange that failed, or a device that could not be opened, the run
\* takes no further step; and without an argument nothing is opened and
\* nothing is written.
C37_NoGetSetBeforeCapabilities ==
    /\ [](GetOrSetWritten =>
            /\ run \in {"loop", "aborted"}
            /\ offset = Len(caps_result)
            /\ run = "loop" => raw_caps = str_ascii(caps_result))
    /\ [][(run = "enter" /\ run' = "loop") =>
            (/\ entry = "request_capabilities"
             /\ outcome.status = "returned"
             /\ Payload(data) = <<>>
             /\ \A m \in Written : CapabilitiesRequestMessage(m))]_vars
    /\ [][(run = "enter_failed" \/ run = "open_failed") => UNCHANGED vars]_vars
    /\ [](run \in {"enter_failed", "open_failed"} => ~GetOrSetWritten)
    /\ [](argv = <<>> => device = "unopened" /\ log = <<>>)

\* C37 witness: the session is open with the string (vcp(10)) and the Get
\* VCP message for 0x10 has been written, after dump.
C37_Witness ==
    /\ run = "loop"
    /\ argi = 2
    /\ raw_caps = <<"(", "v", "c", "p", "(", "1", "0", ")", ")">>
    /\ pc = "write_sleep"
    /\ Written = {<<110, 81, 130, 1, 16>>}

\* C38 as stated: when the run has ended no transport is left open: not
\* after the end of main, not after a getset that raised, not after a
\* capability request that raised while the session was being opened.
C38_TransportClosedAtEnd ==
    RunEnded => device # "open"

\* C40: every message written in a run of main is a Capabilities Request,
\* a Get VCP Feature or a Set VCP Feature; none is Save Current Settings.
C40_NoSaveSettingsWritten ==
    \A m \in Written :
        /\ CapabilitiesRequestMessage(m) \/ GetVcpMessage(m) \/ SetVcpMessage(m)
        /\ ~SaveSettingsMessage(m)

\* C40 witness: in a run of main the getset of the argument 0x10=50 has
\* returned with its two messages written, the Get VCP Feature and the Set
\* VCP Feature for 0x10.
C40_Witness ==
    /\ run = "loop"
    /\ pc = "idle"
    /\ outcome.status = "returned"
    /\ Written = {<<110, 81, 130, 1, 16>>, <<110, 81, 132, 3, 16, 0, 50>>}

\* The Get VCP reply that get_value accepted carries a result code other
\* than 0, or echoes a code other than the one asked for.
ReplyRefused ==
    /\ entry = "getset"
    /\ Len(data) = 12
    /\ data[4] = 2
    /\ ~BadChecksum(data)
    /\ data[5] # 0 \/ data[6] # control

RangeMessages == {
    "Ignoring request to set: Value not one of the supported items",
    "Ignoring request to set: Value is outside the supported range"}

\* C39: in getset, after a Get VCP reply with a non-zero result code or
\* with another code than the one requested, no Set VCP Feature message is
\* written and the range checks are not made on the reply: getset ends
\* with the message for the result code or for the unexpected response,
\* whatever value and maximum the reply carries.
C39_RefusedReplyNotUsed ==
    ReplyRefused =>
        /\ SetWrites = {}
        /\ \A i \in DOMAIN printed : printed[i] \notin RangeMessages
        /\ pc = "idle" =>
              /\ outcome.status = "returned"
              /\ printed = <<IF data[5] # 0
                             THEN "Display does not recognize VCP"
                             ELSE "Ignoring unexpected response">>

\* C39 witness: a value was requested for a code, the reply echoed another
\* code with the maximum 65535, and getset has ended with the message for
\* the unexpected response.
C39_Witness ==
    /\ ReplyRefused
    /\ data[5] = 0
    /\ from_bytes2(data[8], data[9]) = 65535
    /\ valuecode.t = "int"
    /\ pc = "idle"
    /\ printed = <<"Ignoring unexpected response">>

\* C10 witness: a byte string of full length with a non-zero checksum has
\* been checksummed with its checksum appended.
C10_Witness ==
    /\ Len(cs_in) = MaxLen
    /\ Len(cs_out) = 2
    /\ cs_out[1] # 0

====
